---- MODULE Spec2Model ----
(***************************************************************************)
(* Model of the Parampos provider adapter of better-payment: the callback  *)
(* verifier, the SOAP request/response cycle of each adapter operation and *)
(* the normalisation of provider replies into the shared response model.   *)
(*                                                                         *)
(* Strings are sequences of text chunks.  Caller- and provider-supplied    *)
(* data are sequences of one-character chunks, so that concatenation in    *)
(* the canonical hash string behaves as in the code; fixed messages of the *)
(* code are single chunks.  A digest is modelled as the algorithm's name   *)
(* followed by the digested string: equal inputs give equal digests and    *)
(* different inputs different digests.                                     *)
(***************************************************************************)
EXTENDS Integers, Sequences, FiniteSets, TLC

VARIABLES
    paramposConfig,  \* the configuration captured by the constructor
    pc,              \* "idle" or "returned"
    op,              \* the operation of the current request/response cycle
    input,           \* its argument
    http,            \* what the HTTP transport did for it
    sent,            \* the SOAP requests it posted
    result,          \* the response object it returned
    thrown,          \* the message of the error it raised, or Undefined
    tamperedFrom,    \* <<c>> when the callback is the accepted callback c altered, else <<>>
    pending          \* history: the payment ids initThreeDSPayment has returned as PENDING

vars ==
    <<paramposConfig, pc, op, input, http, sent, result, thrown, tamperedFrom,
      pending>>

----------------------------------------------------------------------------
(* Bounds of the model *)

\* longest islemGUID, md and orderId of a callback
MaxLen == 2

----------------------------------------------------------------------------
(* JavaScript values *)

\* the value undefined; in a template string it reads "undefined"
Undefined == <<"undefined">>

\* a string operand of || that is undefined or empty
Falsy(s) == s = Undefined \/ s = <<>>

\* a || b
OrElse(a, b) == IF Falsy(a) THEN b ELSE a

\* the element of a one-element set: The({ e : x \in {v} }) is e with x
\* bound to v, and v evaluated once
The(S) == CHOOSE r \in S : TRUE

\* names of properties an object literal inherits from Object.prototype
ObjectPrototypeKeys ==
    {<<"c", "o", "n", "s", "t", "r", "u", "c", "t", "o", "r">>,
     <<"t", "o", "S", "t", "r", "i", "n", "g">>,
     <<"v", "a", "l", "u", "e", "O", "f">>}

\* the inherited property key of an object: a function, not a string
Inherited(key) == <<"Object.prototype.">> \o key

IsInherited(value) == value # <<>> /\ value[1] = "Object.prototype."

\* the strings made of 1..n copies of the chunk c
Repeat(c, n) == { [i \in 1..k |-> c] : k \in 1..n }

----------------------------------------------------------------------------
(* Shared vocabulary *)

SUCCESS == "success"
FAILURE == "failure"
PENDING == "pending"
CANCELLED == "cancelled"

PaymentStatus == {SUCCESS, FAILURE, PENDING, CANCELLED}

ParamposStatusSUCCESS == <<"1">>
ParamposStatusFAILURE == <<"0">>
ParamposStatusERROR == <<"-", "1">>

\* a response object none of whose fields is set
NoResponse ==
    [status |-> Undefined, paymentId |-> Undefined, refundId |-> Undefined,
     conversationId |-> Undefined, errorCode |-> Undefined,
     errorMessage |-> Undefined, threeDSHtmlContent |-> Undefined,
     rawResponse |-> Undefined]

\* an object literal: the fields given, every other field unset
Response(fields) ==
    [k \in DOMAIN NoResponse |->
        IF k \in DOMAIN fields THEN fields[k] ELSE NoResponse[k]]

----------------------------------------------------------------------------
(* Signature engine and callback verifier *)

Sha1Base64(hashString) == <<"sha1:">> \o hashString
Sha256Base64(hashString) == <<"sha256:">> \o hashString

\* the payment hash with the installment count left out of the hashed string
PaymentHashWithoutInstallment(clientCode, guid, installment, transactionAmount, totalAmount, orderId) ==
    Sha256Base64(clientCode \o guid \o transactionAmount \o totalAmount
                 \o orderId)

\* the payment hash with the two amounts in each other's place
PaymentHashAmountsSwapped(clientCode, guid, installment, transactionAmount, totalAmount, orderId) ==
    Sha256Base64(clientCode \o guid \o installment \o totalAmount
                 \o transactionAmount \o orderId)

generateParamposPaymentHash(clientCode, guid, installment, transactionAmount, totalAmount, orderId) ==
    Sha256Base64(clientCode \o guid \o installment \o transactionAmount
                 \o totalAmount \o orderId)

\* the verification hash with mdStatus left out of the hashed string
VerificationHashWithoutMdStatus(islemGuid, md, mdStatus, orderId, guid) ==
    Sha1Base64(islemGuid \o md \o orderId \o guid)

generateParampos3DSVerificationHash(islemGuid, md, mdStatus, orderId, guid) ==
    Sha1Base64(islemGuid \o md \o mdStatus \o orderId \o guid)

verifyParampos3DSCallback(islemGuid, md, mdStatus, orderId, guid, receivedHash) ==
    generateParampos3DSVerificationHash(islemGuid, md, mdStatus, orderId, guid)
        = receivedHash

InvalidSignatureMessage == <<"Invalid 3D Secure callback signature">>
VerificationFailedMessage == <<"3D Secure verification failed">>

\* the GUID completeThreeDSPayment hands to the verifier
CallbackGuid(config, callbackData) == OrElse(callbackData.GUID, config.guid)

\* completeThreeDSPayment without the mdStatus check
CompleteIgnoringMdStatus(config, callbackData) ==
    IF ~verifyParampos3DSCallback(
            callbackData.islemGUID, callbackData.md, callbackData.mdStatus,
            callbackData.orderId, CallbackGuid(config, callbackData),
            callbackData.hash)
    THEN Response([status |-> FAILURE,
                   errorMessage |-> InvalidSignatureMessage,
                   rawResponse |-> callbackData])
    ELSE Response([status |-> SUCCESS,
                   paymentId |-> callbackData.islemGUID,
                   rawResponse |-> callbackData])

completeThreeDSPayment(config, callbackData) ==
    LET isValid == verifyParampos3DSCallback(
                       callbackData.islemGUID, callbackData.md,
                       callbackData.mdStatus, callbackData.orderId,
                       CallbackGuid(config, callbackData), callbackData.hash)
    IN  IF ~isValid
        THEN Response([status |-> FAILURE,
                       errorMessage |-> InvalidSignatureMessage,
                       rawResponse |-> callbackData])
        ELSE IF callbackData.mdStatus # <<"1">>
        THEN Response([status |-> FAILURE,
                       paymentId |-> callbackData.islemGUID,
                       errorMessage |-> OrElse(callbackData.Sonuc_Str,
                                               VerificationFailedMessage),
                       rawResponse |-> callbackData])
        ELSE Response([status |-> SUCCESS,
                       paymentId |-> callbackData.islemGUID,
                       rawResponse |-> callbackData])

----------------------------------------------------------------------------
(* Numbers and their formatting *)

Digits == <<"0", "1", "2", "3", "4", "5", "6", "7", "8", "9">>

IsDigit(c) == \E d \in 1..Len(Digits) : Digits[d] = c

DigitVal(c) == (CHOOSE d \in 1..Len(Digits) : Digits[d] = c) - 1

RECURSIVE NumToStr(_)
\* String(n) of an integer n >= 0
NumToStr(n) ==
    IF n < 10 THEN <<Digits[n + 1]>>
    ELSE NumToStr(n \div 10) \o <<Digits[(n % 10) + 1]>>

RECURSIVE Pow10(_)
Pow10(k) == IF k = 0 THEN 1 ELSE 10 * Pow10(k - 1)

RECURSIVE DigitRun(_, _)
\* how many digits s has from position i on
DigitRun(s, i) ==
    IF i <= Len(s) /\ IsDigit(s[i]) THEN 1 + DigitRun(s, i + 1) ELSE 0

RECURSIVE DigitsVal(_, _, _)
\* the number written by the k digits of s from position i on
DigitsVal(s, i, k) ==
    IF k = 0 THEN 0
    ELSE DigitsVal(s, i, k - 1) * 10 + DigitVal(s[i + k - 1])

NaN == [nan |-> TRUE, n |-> 0, scale |-> 0]

\* the decimal number n / 10^scale
Decimal(n, scale) == [nan |-> FALSE, n |-> n, scale |-> scale]

\* parseFloat(s) of a string of digits, points and letters: the longest
\* prefix that is a decimal literal, NaN when there is none
ParseFloat(s) ==
    IF s = Undefined THEN NaN
    ELSE
    LET int == DigitRun(s, 1)
        point == int + 1 <= Len(s) /\ s[int + 1] = "."
        frac == IF point THEN DigitRun(s, int + 2) ELSE 0
    IN  IF int + frac = 0 THEN NaN
        ELSE Decimal(DigitsVal(s, 1, int) * Pow10(frac)
                        + DigitsVal(s, int + 2, frac), frac)

\* parseInt(s, 10) of a string of digits and letters
ParseInt(s) ==
    LET int == DigitRun(s, 1)
    IN  IF int = 0 THEN NaN ELSE Decimal(DigitsVal(s, 1, int), 0)

RECURSIVE Pow2Mod25(_)
\* 2^k modulo 25, k >= 0
Pow2Mod25(k) == IF k = 0 THEN 1 ELSE (2 * Pow2Mod25(k - 1)) % 25

RECURSIVE Log2Floor25(_, _)
\* the L with 25 * 2^L <= q < 25 * 2^(L+1), for q >= 1, counted from l
Log2Floor25(q, l) ==
    IF q < 25 THEN Log2Floor25(2 * q, l - 1)
    ELSE IF q >= 50 THEN Log2Floor25(q \div 2, l + 1)
    ELSE l

\* whether the double nearest to q / 200, q odd, is at least q / 200: the
\* double is round(q * 2^k / 25) / 2^(k+3) with 53 significant bits, so it
\* is the remainder of q * 2^k modulo 25 that decides
DoubleIsAtLeast(q) ==
    \/ q % 25 = 0
    \/ ((q % 25) * Pow2Mod25((52 - Log2Floor25(q, 0)) % 20)) % 25 >= 13

\* x.toFixed(2) of the double nearest to the decimal x: the hundredth
\* nearest to the double, which lies below or above x when x is halfway
\* between two hundredths
ToFixed2(x) ==
    LET unit == IF x.scale > 2 THEN Pow10(x.scale - 2) ELSE 1
        whole == IF x.scale > 2 THEN x.n \div unit
                 ELSE x.n * Pow10(2 - x.scale)
        rest == IF x.scale > 2 THEN x.n % unit ELSE 0
        up == \/ 2 * rest > unit
              \/ 2 * rest = unit /\ DoubleIsAtLeast(2 * whole + 1)
        cents == IF up THEN whole + 1 ELSE whole
    IN  NumToStr(cents \div 100) \o <<".">>
            \o <<Digits[((cents \div 10) % 10) + 1], Digits[(cents % 10) + 1]>>

\* what a function call does: return a value or throw an error
Return(v) == [ok |-> TRUE, value |-> v, message |-> <<>>]
Throw(m) == [ok |-> FALSE, value |-> <<>>, message |-> m]

formatParamposAmount(amount) ==
    LET numAmount == ParseFloat(amount)
    IN  IF numAmount.nan
        THEN Throw(<<"Invalid amount: ">> \o amount)
        ELSE Return(ToFixed2(numAmount))

\* String.padStart(2, "0")
PadStart2(s) == IF Len(s) = 0 THEN <<"0", "0">>
                ELSE IF Len(s) = 1 THEN <<"0">> \o s ELSE s

TypeErrorReading(property) ==
    <<"Cannot read properties of undefined (reading '", property, "')">>

formatParamposExpiryMonth(month) ==
    IF month = Undefined THEN Throw(TypeErrorReading("toString"))
    ELSE
    LET monthStr == PadStart2(month)
        monthNum == ParseInt(monthStr)
    IN  IF ~monthNum.nan /\ (monthNum.n < 1 \/ monthNum.n > 12)
        THEN Throw(<<"Invalid month: ">> \o month)
        ELSE Return(monthStr)

\* Math.floor(new Date().getFullYear() / 100) * 100
CurrentCentury == 2000

formatParamposExpiryYear(year) ==
    IF year = Undefined THEN Throw(TypeErrorReading("toString"))
    ELSE IF Len(year) = 2
    THEN LET yearNum == ParseInt(year)
         IN  IF yearNum.nan THEN Return(<<"NaN">>)
             ELSE Return(NumToStr(CurrentCentury + yearNum.n))
    ELSE IF Len(year) = 4
    THEN LET yearNum == ParseInt(year)
         IN  IF ~yearNum.nan /\ (yearNum.n < 2000 \/ yearNum.n > 2100)
             THEN Throw(<<"Invalid year: ">> \o year)
             ELSE Return(year)
    ELSE Throw(<<"Invalid year format: ">> \o year)

\* currencyMap[currency] || TRY: the table is an object literal, whose
\* lookup also finds the properties every object inherits
mapCurrencyToParampos(currency) ==
    IF currency = <<"T", "R", "Y">> THEN <<"T", "L">>
    ELSE IF currency = <<"U", "S", "D">> THEN <<"U", "S">>
    ELSE IF currency = <<"E", "U", "R">> THEN <<"E", "U">>
    ELSE IF currency = <<"G", "B", "P">> THEN <<"G", "B">>
    ELSE IF currency \in ObjectPrototypeKeys THEN Inherited(currency)
    ELSE <<"T", "L">>

\* a function value used as a key is its source text, which no table has
mapCurrencyFromParampos(paramposCurrency) ==
    IF paramposCurrency = <<"T", "L">> THEN <<"T", "R", "Y">>
    ELSE IF paramposCurrency = <<"U", "S">> THEN <<"U", "S", "D">>
    ELSE IF paramposCurrency = <<"E", "U">> THEN <<"E", "U", "R">>
    ELSE IF paramposCurrency = <<"G", "B">> THEN <<"G", "B", "P">>
    ELSE IF paramposCurrency \in ObjectPrototypeKeys
    THEN Inherited(paramposCurrency)
    ELSE <<"T", "R", "Y">>

\* a fee table whose last row is missing
InstallmentRateWithoutTwelve(installments) ==
    IF installments \in 2..11 THEN installments ELSE 0

\* the fee table of calculateParamposTotalAmount, in percent
InstallmentRate(installments) ==
    IF installments \in 2..12 THEN installments ELSE 0

\* amount * (1 + rate), formatted: the hundredth nearest to the product.
\* The floating-point product is within rounding error of the decimal one,
\* which decides the result unless the decimal product lies halfway between
\* two hundredths; amounts with such products are not drawn.
calculateParamposTotalAmount(amount, installments) ==
    LET numAmount == ParseFloat(amount)
    IN  IF numAmount.nan THEN Throw(<<"Invalid amount: ">> \o <<"NaN">>)
        ELSE IF installments <= 1 THEN Return(ToFixed2(numAmount))
        ELSE LET product == numAmount.n * (100 + InstallmentRate(installments))
                 scale == numAmount.scale + 2
                 cents == (product + (Pow10(scale - 2) \div 2)) \div Pow10(scale - 2)
             IN  Return(ToFixed2(Decimal(cents, 2)))

----------------------------------------------------------------------------
(* Wire-format codec *)

RECURSIVE ReplaceAll(_, _, _)
\* text.replace(/c/g, r) for a one-character pattern c
ReplaceAll(text, c, r) ==
    IF text = <<>> THEN <<>>
    ELSE (IF Head(text) = c THEN r ELSE <<Head(text)>>)
            \o ReplaceAll(Tail(text), c, r)

\* escapeXml without the replacement of <
EscapeXmlKeepingLessThan(text) ==
    ReplaceAll(
        ReplaceAll(
            ReplaceAll(
                ReplaceAll(text, "&", <<"&", "a", "m", "p", ";">>),
                ">", <<"&", "g", "t", ";">>),
            "\"", <<"&", "q", "u", "o", "t", ";">>),
        "'", <<"&", "a", "p", "o", "s", ";">>)

escapeXml(text) ==
    ReplaceAll(
        ReplaceAll(
            ReplaceAll(
                ReplaceAll(
                    ReplaceAll(text, "&", <<"&", "a", "m", "p", ";">>),
                    "<", <<"&", "l", "t", ";">>),
                ">", <<"&", "g", "t", ";">>),
            "\"", <<"&", "q", "u", "o", "t", ";">>),
        "'", <<"&", "a", "p", "o", "s", ";">>)

\* an XML document is a sequence of tags and texts
Open(name) == [k |-> "open", name |-> name, value |-> <<>>]
Close(name) == [k |-> "close", name |-> name, value |-> <<>>]
Text(value) == [k |-> "text", name |-> "", value |-> value]

\* <name>value</name>
Element(name, value) ==
    IF value = <<>> THEN <<Open(name), Close(name)>>
    ELSE <<Open(name), Text(value), Close(name)>>

buildParamposSecurityXml(clientCode, clientUsername, clientPassword, guid) ==
    <<Open("G")>>
        \o Element("CLIENT_CODE", escapeXml(clientCode))
        \o Element("CLIENT_USERNAME", escapeXml(clientUsername))
        \o Element("CLIENT_PASSWORD", escapeXml(clientPassword))
        \o Element("GUID", escapeXml(guid))
        \o <<Close("G")>>

buildParamposCardXml(cardHolderName, cardNumber, expiryMonth, expiryYear, cvc, saveCard) ==
    <<Open("KK_Bilgi")>>
        \o Element("KK_Sahibi", escapeXml(cardHolderName))
        \o Element("KK_No", escapeXml(cardNumber))
        \o Element("KK_SK_Ay", escapeXml(expiryMonth))
        \o Element("KK_SK_Yil", escapeXml(expiryYear))
        \o Element("KK_CVC", escapeXml(cvc))
        \o Element("KK_Saklama_Durumu", IF saveCard THEN <<"1">> ELSE <<"0">>)
        \o <<Close("KK_Bilgi")>>

buildParamposSoapEnvelope(soapAction, soapBody) ==
    <<Open("soap:Envelope"), Open("soap:Body"), Open(soapAction)>>
        \o soapBody
        \o <<Close(soapAction), Close("soap:Body"), Close("soap:Envelope")>>

\* tag names that differ only in the case of their letters have the same fold
Fold(name) ==
    IF name = "tp_islem_odemeresult" THEN "TP_Islem_OdemeResult"
    ELSE IF name = "tp_islem_odeme_3dresult" THEN "TP_Islem_Odeme_3DResult"
    ELSE IF name = "tp_islem_iaderesult" THEN "TP_Islem_IadeResult"
    ELSE IF name = "tp_islem_iptalresult" THEN "TP_Islem_IptalResult"
    ELSE IF name = "tp_islem_sorgulamaresult" THEN "TP_Islem_SorgulamaResult"
    ELSE IF name = "tp_kart_bilgiresult" THEN "TP_Kart_BilgiResult"
    ELSE name

\* the lower-case spelling of a result tag
LowerCase(name) ==
    IF name = "TP_Islem_OdemeResult" THEN "tp_islem_odemeresult"
    ELSE IF name = "TP_Islem_Odeme_3DResult" THEN "tp_islem_odeme_3dresult"
    ELSE IF name = "TP_Islem_IadeResult" THEN "tp_islem_iaderesult"
    ELSE IF name = "TP_Islem_IptalResult" THEN "tp_islem_iptalresult"
    ELSE IF name = "TP_Islem_SorgulamaResult" THEN "tp_islem_sorgulamaresult"
    ELSE IF name = "TP_Kart_BilgiResult" THEN "tp_kart_bilgiresult"
    ELSE name

\* names the pattern \w+ matches
IsWord(name) == name \notin {"", "soap:Envelope", "soap:Body"}

\* the keys the adapter reads from a parsed result
ResultKeys ==
    {"Sonuc", "Sonuc_Str", "Hata_Kod", "Islem_GUID", "UCD_HTML",
     "Iade_Islem_GUID", "Siparis_ID", "Kart_Tip", "Kart_Aile", "Kart_Banka",
     "Ticari_Kart"}

CouldNotFindMessage(resultTagName) ==
    <<"Could not find ", resultTagName, " in SOAP response">>

\* the first match of <resultTagName[^>]*>([\s\S]*?)</resultTagName>, letters
\* in any case: <<>> when there is none, else <<the text matched by group 1>>
ResultMatch(soapXml, resultTagName) ==
    LET n == Len(soapXml)
        opens(i) == /\ soapXml[i].k = "open"
                    /\ Fold(soapXml[i].name) = Fold(resultTagName)
        closes(j) == /\ soapXml[j].k = "close"
                     /\ Fold(soapXml[j].name) = Fold(resultTagName)
        starts == { i \in 1..n : opens(i) /\ \E j \in (i + 1)..n : closes(j) }
    IN  IF starts = {} THEN <<>>
        ELSE The({ The({ <<SubSeq(soapXml, first + 1, last - 1)>> :
                         last \in {CHOOSE j \in (first + 1)..n :
                                     /\ closes(j)
                                     /\ \A j2 \in (first + 1)..(j - 1) :
                                            ~closes(j2)} }) :
                   first \in {CHOOSE i \in starts : \A i2 \in starts : i <= i2} })

\* the matches of <(\w+)>([^<]*)</\1> in resultContent, as the result object
\* they are stored in: a later match of a tag replaces an earlier one
TagValues(resultContent) ==
    LET m == Len(resultContent)
        empty(p) == /\ p + 1 <= m
                    /\ resultContent[p + 1].k = "close"
                    /\ resultContent[p + 1].name = resultContent[p].name
        filled(p) == /\ p + 2 <= m
                     /\ resultContent[p + 1].k = "text"
                     /\ resultContent[p + 2].k = "close"
                     /\ resultContent[p + 2].name = resultContent[p].name
        matches(p) == /\ resultContent[p].k = "open"
                      /\ resultContent[p].value = <<>>
                      /\ IsWord(resultContent[p].name)
                      /\ (empty(p) \/ filled(p))
        tagValue(p) == IF filled(p) THEN resultContent[p + 1].value ELSE <<>>
    IN  [tagName \in ResultKeys |->
            The({ IF at = {} THEN Undefined
                  ELSE tagValue(CHOOSE p \in at : \A p2 \in at : p2 <= p) :
                  at \in {{ p \in 1..m : /\ matches(p)
                                         /\ resultContent[p].name = tagName }} })]

parseParamposSoapResponse(soapXml, resultTagName) ==
    The({
            IF resultMatch = <<>>
            THEN Throw(CouldNotFindMessage(resultTagName))
            ELSE Return(TagValues(resultMatch[1])) :
        resultMatch \in {ResultMatch(soapXml, resultTagName)} })

\* what axios does with a posted request
HttpError(message) == [kind |-> "error", message |-> message, data |-> <<>>]
HttpResponse(data) == [kind |-> "response", message |-> <<>>, data |-> data]
NoHttp == [kind |-> "none", message |-> <<>>, data |-> <<>>]

SoapFailedPrefix == <<"Parampos SOAP request failed: ">>

\* sendSoapRequest with a catch block that drops the message of the error
SendSoapRequestDroppingMessage(outcome, resultTagName) ==
    The({
            IF attempt.ok THEN attempt
            ELSE Throw(SoapFailedPrefix \o <<"Unknown error">>) :
        attempt \in {IF outcome.kind = "error" THEN Throw(outcome.message)
         ELSE parseParamposSoapResponse(outcome.data, resultTagName)} })

\* sendSoapRequest once the transport has answered with outcome
sendSoapRequest(outcome, resultTagName) ==
    The({
            IF attempt.ok THEN attempt
            ELSE Throw(SoapFailedPrefix
                       \o OrElse(attempt.message, <<"Unknown error">>)) :
        attempt \in {IF outcome.kind = "error" THEN Throw(outcome.message)
         ELSE parseParamposSoapResponse(outcome.data, resultTagName)} })

\* the request sendSoapRequest posts
SoapRequest(soapAction, soapBody) ==
    [SOAPAction |-> <<"https://turkpos.com.tr/", soapAction>>,
     envelope |-> buildParamposSoapEnvelope(soapAction, soapBody)]

----------------------------------------------------------------------------
(* Provider adapter: the SOAP operations *)

\* mapStatus with a default branch that fails open
MapStatusFailOpen(paramposStatus) ==
    IF paramposStatus = ParamposStatusFAILURE THEN FAILURE ELSE SUCCESS

mapStatus(paramposStatus) ==
    IF paramposStatus = ParamposStatusSUCCESS THEN SUCCESS
    ELSE IF paramposStatus = ParamposStatusFAILURE THEN FAILURE
    ELSE FAILURE

\* escapeXml(text) as a call: text.replace fails on undefined and on a
\* value that is not a string
escapeXmlCall(text) ==
    IF text = Undefined THEN Throw(TypeErrorReading("replace"))
    ELSE IF IsInherited(text) THEN Throw(<<"text.replace is not a function">>)
    ELSE Return(escapeXml(text))

\* the first call of calls that throws, or the last one when none does
FirstThrow(calls) ==
    IF \E i \in 1..Len(calls) : ~calls[i].ok
    THEN calls[CHOOSE i \in 1..Len(calls) :
                   ~calls[i].ok /\ \A j \in 1..(i - 1) : calls[j].ok]
    ELSE calls[Len(calls)]

\* what an operation did: the response it returned or the error it raised,
\* and the requests it posted
Returned(response, posted) ==
    [result |-> response, thrown |-> Undefined, sent |-> posted]
Raised(message, posted) ==
    [result |-> NoResponse, thrown |-> message, sent |-> posted]

SecurityXml(config) ==
    buildParamposSecurityXml(config.clientCode, config.clientUsername,
                             config.clientPassword, config.guid)

\* the card block, or what building it throws
CardXml(request) ==
    IF request.paymentCard = <<>>
    THEN Throw(TypeErrorReading("cardHolderName"))
    ELSE
    LET card == request.paymentCard[1]
    IN  The({
                IF ~FirstThrow(calls).ok THEN FirstThrow(calls)
                ELSE Return(buildParamposCardXml(
                                card.cardHolderName, card.cardNumber,
                                calls[1].value, calls[2].value, card.cvc,
                                card.registerCard)) :
        calls \in {<<formatParamposExpiryMonth(card.expireMonth),
               formatParamposExpiryYear(card.expireYear),
               escapeXmlCall(card.cardHolderName),
               escapeXmlCall(card.cardNumber), escapeXmlCall(card.cvc)>>} })

\* the body of TP_Islem_Odeme and TP_Islem_Odeme_3D, or what building it
\* throws; threeDS adds the callback URLs
PaymentSoapBody(config, request, installment, transactionAmount, totalAmount, threeDS) ==
    The({
            IF ~FirstThrow(calls).ok THEN FirstThrow(calls)
            ELSE
            LET hash == generateParamposPaymentHash(
                            config.clientCode, config.guid,
                            NumToStr(installment), calls[1].value,
                            calls[2].value, request.basketId)
            IN  Return(
                SecurityXml(config)
                \o calls[3].value
                \o Element("Taksit", NumToStr(installment))
                \o Element("Islem_Tutar", escapeXml(calls[1].value))
                \o Element("Toplam_Tutar", escapeXml(calls[2].value))
                \o Element("Siparis_ID", escapeXml(request.basketId))
                \o Element("Siparis_Aciklama", escapeXml(request.basketId))
                \o Element("Islem_Hash", escapeXml(hash))
                \o Element("IPAdr", calls[5].value)
                \o (IF threeDS
                    THEN Element("SUCCESS_URL", calls[6].value)
                         \o Element("FAIL_URL", calls[6].value)
                    ELSE <<>>)
                \o Element("Doviz_Kodu", calls[7].value)) :
        calls \in {<<transactionAmount, totalAmount, CardXml(request),
           escapeXmlCall(request.basketId),
           IF request.buyer = <<>> THEN Throw(TypeErrorReading("ip"))
           ELSE escapeXmlCall(request.buyer[1].ip),
           IF threeDS THEN escapeXmlCall(request.callbackUrl) ELSE Return(<<>>),
           escapeXmlCall(mapCurrencyToParampos(request.currency))>>} })

\* a catch block that reports the fallback text as an error code as well
CaughtWithCode(message, fallback, conversationId) ==
    Response([status |-> FAILURE,
              conversationId |-> conversationId,
              errorCode |-> fallback,
              errorMessage |-> OrElse(message, fallback)])

\* the catch block of an operation that returns a response
Caught(message, fallback, conversationId) ==
    Response([status |-> FAILURE,
              conversationId |-> conversationId,
              errorMessage |-> OrElse(message, fallback)])

\* a try block that posts the request once more when the first post fails
AttemptRetrying(soapBody, soapAction, resultTagName, outcome) ==
    The({ IF ~body.ok
          THEN [ok |-> FALSE, response |-> <<>>, message |-> body.message,
                posted |-> <<>>]
          ELSE The({ [ok |-> sent1.ok, response |-> sent1.value,
                      message |-> sent1.message,
                      posted |->
                          IF sent1.ok
                          THEN <<SoapRequest(soapAction, body.value)>>
                          ELSE <<SoapRequest(soapAction, body.value),
                                 SoapRequest(soapAction, body.value)>>] :
                     sent1 \in {sendSoapRequest(outcome, resultTagName)} }) :
          body \in {soapBody} })

\* the try block of an operation up to the reply: the body is built and
\* posted with sendSoapRequest; ok with the parsed response, or not ok with
\* the message of the error thrown on the way; posted are the requests sent
Attempt(soapBody, soapAction, resultTagName, outcome) ==
    The({ IF ~body.ok
          THEN [ok |-> FALSE, response |-> <<>>, message |-> body.message,
                posted |-> <<>>]
          ELSE The({ [ok |-> sent1.ok, response |-> sent1.value,
                      message |-> sent1.message,
                      posted |-> <<SoapRequest(soapAction, body.value)>>] :
                     sent1 \in {sendSoapRequest(outcome, resultTagName)} }) :
          body \in {soapBody} })

createPayment(config, request, outcome) ==
    The({ IF call.ok THEN
            Returned(
                Response([status |-> mapStatus(call.response.Sonuc),
                          paymentId |-> call.response.Islem_GUID,
                          conversationId |-> request.conversationId,
                          errorCode |-> call.response.Hata_Kod,
                          errorMessage |->
                              IF call.response.Sonuc = ParamposStatusSUCCESS
                              THEN Undefined ELSE call.response.Sonuc_Str,
                          rawResponse |-> call.response]),
                call.posted)
           ELSE
            Returned(Caught(call.message, <<"Payment failed">>,
                            request.conversationId), call.posted) :
          call \in {Attempt(PaymentSoapBody(config, request, 1,
                        formatParamposAmount(request.price),
                        formatParamposAmount(request.paidPrice), FALSE),
        "TP_Islem_Odeme", "TP_Islem_OdemeResult", outcome)} })

\* initThreeDSPayment answering the way createPayment does
InitAnsweringAsPayment(config, request, outcome) ==
    createPayment(config, request, outcome)

\* a total that is the formatted paidPrice for every installment count
TotalFromPaidPrice(request, installment) ==
    formatParamposAmount(request.paidPrice)

\* totalAmount of initThreeDSPayment
ThreeDSTotalAmount(request, installment) ==
    IF installment > 1
    THEN calculateParamposTotalAmount(request.price, installment)
    ELSE formatParamposAmount(request.paidPrice)

initThreeDSPayment(config, request, outcome) ==
    LET installment == IF request.installment = 0 THEN 1 ELSE request.installment
    IN  The({ IF call.ok THEN
                IF call.response.Sonuc # ParamposStatusSUCCESS
                THEN Returned(
                        Response([status |-> FAILURE,
                                  conversationId |-> request.conversationId,
                                  errorCode |-> call.response.Hata_Kod,
                                  errorMessage |-> call.response.Sonuc_Str,
                                  rawResponse |-> call.response]),
                        call.posted)
                ELSE Returned(
                        Response([status |-> PENDING,
                                  threeDSHtmlContent |-> call.response.UCD_HTML,
                                  paymentId |-> call.response.Islem_GUID,
                                  conversationId |-> request.conversationId,
                                  rawResponse |-> call.response]),
                        call.posted)
           ELSE
                Returned(Caught(call.message, <<"3D Secure initialization failed">>,
                                request.conversationId), call.posted) :
          call \in {Attempt(PaymentSoapBody(
                config, request, installment,
                formatParamposAmount(request.price),
                ThreeDSTotalAmount(request, installment), TRUE),
            "TP_Islem_Odeme_3D", "TP_Islem_Odeme_3DResult", outcome)} })

RefundSoapBody(config, request) ==
    The({
            IF ~FirstThrow(calls).ok THEN FirstThrow(calls)
            ELSE Return(SecurityXml(config)
                        \o Element("Islem_GUID", calls[2].value)
                        \o Element("Iade_Tutar", escapeXml(calls[1].value))
                        \o Element("IPAdr", calls[3].value)) :
        calls \in {<<formatParamposAmount(request.price),
           escapeXmlCall(request.paymentId), escapeXmlCall(request.ip)>>} })

refund(config, request, outcome) ==
    The({ IF call.ok THEN
            Returned(
                Response([status |-> mapStatus(call.response.Sonuc),
                          refundId |-> call.response.Iade_Islem_GUID,
                          conversationId |-> request.conversationId,
                          errorCode |-> call.response.Hata_Kod,
                          errorMessage |->
                              IF call.response.Sonuc = ParamposStatusSUCCESS
                              THEN Undefined ELSE call.response.Sonuc_Str,
                          rawResponse |-> call.response]),
                call.posted)
           ELSE
            Returned(Caught(call.message, <<"Refund failed">>,
                            request.conversationId), call.posted) :
          call \in {Attempt(RefundSoapBody(config, request),
        "TP_Islem_Iade", "TP_Islem_IadeResult", outcome)} })

CancelSoapBody(config, request) ==
    The({
            IF ~FirstThrow(calls).ok THEN FirstThrow(calls)
            ELSE Return(SecurityXml(config)
                        \o Element("Islem_GUID", calls[1].value)
                        \o Element("IPAdr", calls[2].value)) :
        calls \in {<<escapeXmlCall(request.paymentId), escapeXmlCall(request.ip)>>} })

cancel(config, request, outcome) ==
    The({ IF call.ok THEN
            Returned(
                Response([status |-> mapStatus(call.response.Sonuc),
                          conversationId |-> request.conversationId,
                          errorCode |-> call.response.Hata_Kod,
                          errorMessage |->
                              IF call.response.Sonuc = ParamposStatusSUCCESS
                              THEN Undefined ELSE call.response.Sonuc_Str,
                          rawResponse |-> call.response]),
                call.posted)
           ELSE
            Returned(Caught(call.message, <<"Cancellation failed">>,
                            request.conversationId), call.posted) :
          call \in {Attempt(CancelSoapBody(config, request),
        "TP_Islem_Iptal", "TP_Islem_IptalResult", outcome)} })

InquirySoapBody(config, paymentId) ==
    The({
        IF ~escaped.ok THEN escaped
        ELSE Return(SecurityXml(config)
                    \o Element("Islem_GUID", escaped.value)
                    \o Element("IPAdr", <<"127.0.0.1">>)) :
        escaped \in {escapeXmlCall(paymentId)} })

getPayment(config, paymentId, outcome) ==
    The({ IF call.ok THEN
            Returned(
                Response([status |-> mapStatus(call.response.Sonuc),
                          paymentId |-> call.response.Islem_GUID,
                          conversationId |-> call.response.Siparis_ID,
                          errorCode |-> call.response.Hata_Kod,
                          errorMessage |->
                              IF call.response.Sonuc = ParamposStatusSUCCESS
                              THEN Undefined ELSE call.response.Sonuc_Str,
                          rawResponse |-> call.response]),
                call.posted)
           ELSE
            Returned(Caught(call.message, <<"Payment inquiry failed">>, Undefined),
                     call.posted) :
          call \in {Attempt(InquirySoapBody(config, paymentId),
        "TP_Islem_Sorgulama", "TP_Islem_SorgulamaResult", outcome)} })

BinSoapBody(config, binNumber) ==
    The({
        IF ~escaped.ok THEN escaped
        ELSE Return(SecurityXml(config) \o Element("Bin", escaped.value)) :
        escaped \in {escapeXmlCall(binNumber)} })

NotSupportedMessage(binNumber) ==
    <<"BIN check for ">> \o binNumber \o <<" not supported by this provider">>

binCheck(config, binNumber, outcome) ==
    The({ IF call.ok THEN
            IF call.response.Sonuc # ParamposStatusSUCCESS
            \* the error thrown in the try block lands in its own catch block
            THEN Raised(NotSupportedMessage(binNumber), call.posted)
            ELSE Returned(
                    [binNumber |-> binNumber,
                     cardType |-> OrElse(call.response.Kart_Tip, <<>>),
                     cardAssociation |-> OrElse(call.response.Kart_Aile, <<>>),
                     cardFamily |-> OrElse(call.response.Kart_Aile, <<>>),
                     bankName |-> OrElse(call.response.Kart_Banka, <<>>),
                     bankCode |-> 0,
                     commercial |-> call.response.Ticari_Kart = <<"1">>,
                     rawResponse |-> call.response],
                    call.posted)
           ELSE
            Raised(NotSupportedMessage(binNumber), call.posted) :
          call \in {Attempt(BinSoapBody(config, binNumber),
        "TP_Kart_Bilgi", "TP_Kart_BilgiResult", outcome)} })

----------------------------------------------------------------------------
(* Inputs *)

MerchantGuid == <<"g">>
ForeignGuids == {<<"e">>, <<"1", "g">>}

\* a text with every character escapeXml replaces
HostileText == <<"<", "/", "b", ">", "&", "\"", "'">>

Configs ==
    {[clientCode |-> <<"c">>, clientUsername |-> <<"u">>,
      clientPassword |-> p, guid |-> MerchantGuid] :
        p \in {<<"p">>, HostileText}}

FieldStrings == Repeat("1", MaxLen)
MdStatuses == {<<"1">>, <<"0">>, <<"1", "1">>}
CallbackGuids == {Undefined, <<>>, MerchantGuid} \cup ForeignGuids
SigningGuids == {<<>>, MerchantGuid} \cup ForeignGuids

\* the fields a callback is signed over
SignedTuples ==
    [islemGUID : FieldStrings, md : FieldStrings, mdStatus : MdStatuses,
     orderId : FieldStrings, guid : SigningGuids]

HashOf(t) ==
    generateParampos3DSVerificationHash(t.islemGUID, t.md, t.mdStatus,
                                        t.orderId, t.guid)

CallbackHashes == {<<"invalid-hash">>} \cup { HashOf(t) : t \in SignedTuples }

\* the bank's result code and reason string, as far as a callback carries them
CallbackReasons ==
    {[Sonuc |-> Undefined, Sonuc_Str |-> Undefined],
     [Sonuc |-> <<"1">>, Sonuc_Str |-> <<>>],
     [Sonuc |-> <<"0">>, Sonuc_Str |-> <<"d">>],
     [Sonuc |-> <<"0">>, Sonuc_Str |-> Undefined]}

Callbacks ==
    { [islemGUID |-> t.islemGUID, md |-> t.md, mdStatus |-> t.mdStatus,
       orderId |-> t.orderId, GUID |-> g, hash |-> h,
       Sonuc |-> r.Sonuc, Sonuc_Str |-> r.Sonuc_Str] :
      t \in [islemGUID : FieldStrings, md : FieldStrings,
             mdStatus : MdStatuses, orderId : FieldStrings],
      g \in CallbackGuids, h \in CallbackHashes, r \in CallbackReasons }

\* the callbacks that differ from callbackData in exactly one signed field
\* and carry the same hash
Tampered(callbackData) ==
    { [callbackData EXCEPT !.islemGUID = v] :
        v \in FieldStrings \ {callbackData.islemGUID} }
    \cup { [callbackData EXCEPT !.md = v] : v \in FieldStrings \ {callbackData.md} }
    \cup { [callbackData EXCEPT !.mdStatus = v] :
              v \in MdStatuses \ {callbackData.mdStatus} }
    \cup { [callbackData EXCEPT !.orderId = v] :
              v \in FieldStrings \ {callbackData.orderId} }


\* <name>value</name>, or nothing when the reply lacks the element
Optional(name, value) == IF value = Undefined THEN <<>> ELSE Element(name, value)

\* a reply whose result element is spelled wrapper
ReplyDoc(wrapper, fields) ==
    <<Open("soap:Envelope"), Open("soap:Body"), Open(wrapper)>>
        \o Optional("Sonuc", fields.Sonuc)
        \o Optional("Sonuc_Str", fields.Sonuc_Str)
        \o Optional("Hata_Kod", fields.Hata_Kod)
        \o (IF fields.details
            THEN Element("Islem_GUID", <<"t">>) \o Element("UCD_HTML", <<"h">>)
                 \o Element("Iade_Islem_GUID", <<"r">>)
                 \o Element("Siparis_ID", <<"b">>)
                 \o Element("Kart_Tip", <<"C">>) \o Element("Kart_Banka", <<"B">>)
                 \o Element("Ticari_Kart", <<"0">>)
            ELSE <<>>)
        \o <<Close(wrapper), Close("soap:Body"), Close("soap:Envelope")>>

ReplyFields ==
    [Sonuc : {Undefined, <<"1">>, <<"0">>, <<"-", "1">>, <<"2">>},
     Sonuc_Str : {Undefined, <<>>, <<"d">>},
     Hata_Kod : {Undefined, <<"E">>},
     details : BOOLEAN]

\* the replies to a request whose result element is resultTagName: with
\* the element, with the element in lower case, and without it
ReplyDocs(resultTagName) ==
    { ReplyDoc(w, f) : w \in {resultTagName, LowerCase(resultTagName)},
                       f \in ReplyFields }
    \cup {<<Open("soap:Envelope"), Close("soap:Envelope")>>}

TransportErrors ==
    {<<"Network Error">>, <<"timeout of 60000ms exceeded">>,
     <<"Request failed with status code 500">>, <<>>}

HttpOutcomes(resultTagName) ==
    { HttpError(m) : m \in TransportErrors }
    \cup { HttpResponse(d) : d \in ReplyDocs(resultTagName) }

TestCard ==
    [cardHolderName |-> <<"n">>, cardNumber |-> <<"5">>,
     expireMonth |-> <<"1", "2">>, expireYear |-> <<"2", "0", "3", "0">>,
     cvc |-> <<"7">>, registerCard |-> FALSE]

BasePaymentRequest ==
    [price |-> <<"1", "0">>, paidPrice |-> <<"1", "0">>,
     currency |-> <<"T", "R", "Y">>, basketId |-> <<"b">>,
     conversationId |-> Undefined, paymentCard |-> <<TestCard>>,
     buyer |-> <<[ip |-> <<"i">>]>>,
     basketItems |-> <<[id |-> <<"1">>, price |-> <<"1", "0">>]>>]

PaymentRequests ==
    {BasePaymentRequest,
     [BasePaymentRequest EXCEPT !.price = <<"a">>],
     [BasePaymentRequest EXCEPT !.price = <<"1", "0", ".", "5">>],
     [BasePaymentRequest EXCEPT !.conversationId = <<"k">>],
     [BasePaymentRequest EXCEPT !.paidPrice = <<"1", "2">>],
     [BasePaymentRequest EXCEPT !.basketId = <<"<", "b">>],
     [BasePaymentRequest EXCEPT !.basketId = HostileText,
                                !.currency = HostileText,
                                !.buyer = <<[ip |-> HostileText]>>,
                                !.paymentCard =
         <<[cardHolderName |-> HostileText, cardNumber |-> HostileText,
            expireMonth |-> <<"<", "1">>, expireYear |-> <<"<", "&">>,
            cvc |-> HostileText, registerCard |-> TRUE]>>],
     [BasePaymentRequest EXCEPT !.basketId = Undefined],
     [BasePaymentRequest EXCEPT
         !.currency = <<"t", "o", "S", "t", "r", "i", "n", "g">>],
     [BasePaymentRequest EXCEPT !.paymentCard = <<>>],
     [BasePaymentRequest EXCEPT !.paymentCard =
         <<[TestCard EXCEPT !.expireMonth = <<"1", "3">>]>>],
     [BasePaymentRequest EXCEPT !.buyer = <<>>],
     [BasePaymentRequest EXCEPT !.basketItems = <<>>]}

\* installment 0 stands for a request without installment
ThreeDSPaymentRequests ==
    { r @@ [callbackUrl |-> u, installment |-> i] :
        r \in {BasePaymentRequest,
               [BasePaymentRequest EXCEPT !.price = <<"a">>],
               [BasePaymentRequest EXCEPT !.paidPrice = <<"1", "2">>],
               [BasePaymentRequest EXCEPT !.conversationId = <<"k">>]},
        u \in {<<"u">>, <<"u", "?", "a", "&", "b">>, Undefined},
        i \in {0, 1, 3} }

RefundRequests ==
    [paymentId : {<<"t">>, HostileText, Undefined},
     price : {<<"5">>, <<"a">>},
     ip : {<<"i">>, HostileText}, conversationId : {Undefined, <<"k">>}]

CancelRequests ==
    [paymentId : {<<"t">>, HostileText, Undefined},
     ip : {<<"i">>, HostileText}, conversationId : {Undefined, <<"k">>}]

PaymentIds == {<<"t">>, HostileText, Undefined}
BinNumbers == {<<"5", "5">>, HostileText, Undefined}

----------------------------------------------------------------------------
(* The adapter: one request/response cycle at a time *)

Init ==
    /\ paramposConfig \in Configs
    /\ pc = "idle"
    /\ op = "none"
    /\ input = Undefined
    /\ http = NoHttp
    /\ sent = <<>>
    /\ result = NoResponse
    /\ thrown = Undefined
    /\ tamperedFrom = <<>>
    /\ pending = {}

CompleteThreeDSPayment ==
    /\ pc = "idle"
    /\ \E callbackData \in Callbacks :
        /\ input' = callbackData
        /\ result' = completeThreeDSPayment(paramposConfig, callbackData)
    /\ op' = "completeThreeDSPayment"
    /\ pc' = "returned"
    /\ thrown' = Undefined
    /\ tamperedFrom' = <<>>
    /\ UNCHANGED <<paramposConfig, http, sent, pending>>

\* a callback whose signature was accepted comes in again with the same hash
\* and one signed field altered
CompleteTamperedCallback ==
    /\ pc = "returned"
    /\ op = "completeThreeDSPayment"
    /\ tamperedFrom = <<>>
    /\ result.errorMessage # InvalidSignatureMessage
    /\ \E callbackData \in Tampered(input) :
        /\ input' = callbackData
        /\ result' = completeThreeDSPayment(paramposConfig, callbackData)
    /\ tamperedFrom' = <<input>>
    /\ UNCHANGED <<paramposConfig, pc, op, http, sent, thrown, pending>>

\* an operation runs from call to return
Cycle(name, argument, done, outcome) ==
    /\ pc' = "returned"
    /\ op' = name
    /\ input' = argument
    /\ http' = IF done.sent = <<>> THEN NoHttp ELSE outcome
    /\ sent' = done.sent
    /\ result' = done.result
    /\ thrown' = done.thrown
    /\ tamperedFrom' = <<>>
    /\ pending' = IF /\ name = "initThreeDSPayment"
                     /\ done.result.status = PENDING
                     /\ done.result.paymentId # Undefined
                  THEN pending \cup {done.result.paymentId}
                  ELSE pending
    /\ UNCHANGED paramposConfig

CreatePayment ==
    /\ pc = "idle"
    /\ \E request \in PaymentRequests,
          outcome \in HttpOutcomes("TP_Islem_OdemeResult") :
           Cycle("createPayment", request,
                 createPayment(paramposConfig, request, outcome), outcome)

InitThreeDSPayment ==
    /\ pc = "idle"
    /\ \E request \in ThreeDSPaymentRequests,
          outcome \in HttpOutcomes("TP_Islem_Odeme_3DResult") :
           Cycle("initThreeDSPayment", request,
                 initThreeDSPayment(paramposConfig, request, outcome), outcome)

Refund ==
    /\ pc = "idle"
    /\ \E request \in RefundRequests,
          outcome \in HttpOutcomes("TP_Islem_IadeResult") :
           Cycle("refund", request,
                 refund(paramposConfig, request, outcome), outcome)

Cancel ==
    /\ pc = "idle"
    /\ \E request \in CancelRequests,
          outcome \in HttpOutcomes("TP_Islem_IptalResult") :
           Cycle("cancel", request,
                 cancel(paramposConfig, request, outcome), outcome)

GetPayment ==
    /\ pc = "idle"
    /\ \E paymentId \in PaymentIds,
          outcome \in HttpOutcomes("TP_Islem_SorgulamaResult") :
           Cycle("getPayment", paymentId,
                 getPayment(paramposConfig, paymentId, outcome), outcome)

BinCheck ==
    /\ pc = "idle"
    /\ \E binNumber \in BinNumbers,
          outcome \in HttpOutcomes("TP_Kart_BilgiResult") :
           Cycle("binCheck", binNumber,
                 binCheck(paramposConfig, binNumber, outcome), outcome)

\* the caller has its answer; nothing of the cycle is kept
EndCycle ==
    /\ pc = "returned"
    /\ pc' = "idle"
    /\ op' = "none"
    /\ input' = Undefined
    /\ http' = NoHttp
    /\ sent' = <<>>
    /\ result' = NoResponse
    /\ thrown' = Undefined
    /\ tamperedFrom' = <<>>
    /\ UNCHANGED <<paramposConfig, pending>>

Next ==
    \/ CreatePayment
    \/ InitThreeDSPayment
    \/ CompleteThreeDSPayment
    \/ CompleteTamperedCallback
    \/ Refund
    \/ Cancel
    \/ GetPayment
    \/ BinCheck
    \/ EndCycle

Spec == Init /\ [][Next]_vars

----------------------------------------------------------------------------
(* Callback verification *)

\* the hash of the callback's signed fields under the GUID guid
CallbackHashUnder(callbackData, guid) ==
    Sha1Base64(callbackData.islemGUID \o callbackData.md \o callbackData.mdStatus
               \o callbackData.orderId \o guid)

Completed == pc = "returned" /\ op = "completeThreeDSPayment"

\* C1: a callback whose hash differs from the hash of its islemGUID, md,
\* mdStatus, orderId and the merchant GUID gets FAILURE with the invalid
\* signature message and no paymentId, whatever else it carries.
C1_MismatchIsInvalidSignature ==
    (Completed /\ input.hash # CallbackHashUnder(input, paramposConfig.guid))
        => /\ result.status = FAILURE
           /\ result.errorMessage = InvalidSignatureMessage
           /\ result.paymentId = Undefined

\* C2: a callback whose hash was computed with a GUID other than the merchant
\* GUID is never answered SUCCESS, whatever its own GUID field and mdStatus.
C2_ForeignGuidRejected ==
    (Completed /\ \E g \in SigningGuids \ {paramposConfig.guid} :
                      input.hash = CallbackHashUnder(input, g))
        => result.status = FAILURE

\* C3: an accepted callback with exactly one of islemGUID, md, mdStatus,
\* orderId changed and the hash kept gets FAILURE with the invalid signature
\* message.
C3_TamperedFieldRejected ==
    (Completed /\ tamperedFrom # <<>>)
        => /\ result.status = FAILURE
           /\ result.errorMessage = InvalidSignatureMessage

\* a callback signed for a declined payment comes back with mdStatus "1"
C3_Witness ==
    /\ Completed
    /\ tamperedFrom # <<>>
    /\ tamperedFrom[1].mdStatus = <<"0">>
    /\ input.mdStatus = <<"1">>
    /\ input.hash = tamperedFrom[1].hash
    /\ result.status = FAILURE

----------------------------------------------------------------------------
(* The provider's answer, as the provider wrote it *)

\* the result element of the operation that has returned
ResultTagName ==
    CASE op = "createPayment" -> "TP_Islem_OdemeResult"
      [] op = "initThreeDSPayment" -> "TP_Islem_Odeme_3DResult"
      [] op = "refund" -> "TP_Islem_IadeResult"
      [] op = "cancel" -> "TP_Islem_IptalResult"
      [] op = "getPayment" -> "TP_Islem_SorgulamaResult"
      [] op = "binCheck" -> "TP_Kart_BilgiResult"
      [] OTHER -> ""

ResultSpellings == {ResultTagName, LowerCase(ResultTagName)}

\* the operation posted a request
Posted == pc = "returned" /\ sent # <<>>

\* the provider answered the request with a reply that has the result element
Answered ==
    /\ Posted
    /\ http.kind = "response"
    /\ \E f \in ReplyFields, w \in ResultSpellings : http.data = ReplyDoc(w, f)

\* the fields the provider put in that reply
ProviderReply ==
    CHOOSE f \in ReplyFields :
        \E w \in ResultSpellings : http.data = ReplyDoc(w, f)

\* the provider rejected the transaction
Rejected == Answered /\ ProviderReply.Sonuc # <<"1">>

\* text has part in it
Carries(text, part) ==
    \E i \in 0..(Len(text) - Len(part)) :
        SubSeq(text, i + 1, i + Len(part)) = part

----------------------------------------------------------------------------
(* Status mapping *)

\* C5: createPayment, refund, cancel and getPayment return SUCCESS only when
\* the provider's reply carries Sonuc "1"; with any other Sonuc, with none,
\* and with no reply at all they return FAILURE.
C5_FailClosedStatus ==
    (pc = "returned"
     /\ op \in {"createPayment", "refund", "cancel", "getPayment"})
        => /\ thrown = Undefined
           /\ result.status \in {SUCCESS, FAILURE}
           /\ result.status = SUCCESS
                => (Answered /\ ProviderReply.Sonuc = <<"1">>)

\* an inquiry answered with a result code the adapter does not know
C5_Witness ==
    /\ pc = "returned"
    /\ op = "getPayment"
    /\ Answered
    /\ ProviderReply.Sonuc = <<"2">>
    /\ result.status = FAILURE

\* C6: initThreeDSPayment never returns SUCCESS; it returns PENDING, with
\* threeDSHtmlContent = UCD_HTML and paymentId = Islem_GUID of the reply,
\* exactly when the provider answers Sonuc "1", and FAILURE otherwise.
C6_InitIsPendingOrFailure ==
    (pc = "returned" /\ op = "initThreeDSPayment")
        => /\ thrown = Undefined
           /\ result.status # SUCCESS
           /\ result.status = PENDING
                <=> (Answered /\ ProviderReply.Sonuc = <<"1">>)
           /\ result.status = PENDING
                => /\ result.threeDSHtmlContent
                        = (IF ProviderReply.details THEN <<"h">> ELSE Undefined)
                   /\ result.paymentId
                        = (IF ProviderReply.details THEN <<"t">> ELSE Undefined)
           /\ result.status # PENDING => result.status = FAILURE

C6_Witness ==
    /\ pc = "returned"
    /\ op = "initThreeDSPayment"
    /\ Answered
    /\ ProviderReply.Sonuc = <<"1">>
    /\ result.status = PENDING
    /\ result.threeDSHtmlContent = <<"h">>
    /\ result.paymentId = <<"t">>

----------------------------------------------------------------------------
(* Error reporting *)

ResponseOperations ==
    {"createPayment", "completeThreeDSPayment", "refund", "cancel",
     "getPayment"}

C8_BusinessFailureReported ==
    /\ (Rejected
        /\ op \in {"createPayment", "initThreeDSPayment", "refund", "cancel"})
            => /\ thrown = Undefined
               /\ result.status = FAILURE
               /\ ~Falsy(result.errorMessage)
               /\ result.errorCode = ProviderReply.Hata_Kod
    /\ (Completed
        /\ input.hash = CallbackHashUnder(input, paramposConfig.guid)
        /\ Falsy(input.GUID)
        /\ input.mdStatus # <<"1">>)
            => /\ thrown = Undefined
               /\ result.status = FAILURE
               /\ ~Falsy(result.errorMessage)
               /\ result.errorCode = Undefined

SoapOperations ==
    {"createPayment", "initThreeDSPayment", "refund", "cancel", "getPayment"}

\* C9: when the transport fails or the reply lacks the result element,
\* createPayment, initThreeDSPayment, refund, cancel and getPayment raise
\* nothing and return FAILURE with an errorMessage that carries the
\* transport error's message, or "Could not find <tag>" for the missing
\* element.
C9_TransportFailureReported ==
    (Posted /\ ~Answered /\ op \in SoapOperations)
        => /\ thrown = Undefined
           /\ result.status = FAILURE
           /\ ~Falsy(result.errorMessage)
           /\ Carries(result.errorMessage,
                      IF http.kind = "error" THEN http.message
                      ELSE <<"Could not find ", ResultTagName>>)

\* a refund whose reply has no TP_Islem_IadeResult element
C9_Witness ==
    /\ Posted
    /\ op = "refund"
    /\ http.kind = "response"
    /\ ~Answered
    /\ result.status = FAILURE
    /\ result.errorMessage
        = SoapFailedPrefix \o CouldNotFindMessage("TP_Islem_IadeResult")

\* C10: a BIN check that the provider rejects, or that fails in transport,
\* does not end in the "not supported by this provider" error.
C10_NotSupportedOnlyWhenNotOffered ==
    (Posted /\ op = "binCheck" /\ (Rejected \/ http.kind = "error"))
        => thrown # NotSupportedMessage(input)

----------------------------------------------------------------------------
(* Requests on the wire *)

Entities ==
    {<<"&", "a", "m", "p", ";">>, <<"&", "l", "t", ";">>, <<"&", "g", "t", ";">>,
     <<"&", "q", "u", "o", "t", ";">>, <<"&", "a", "p", "o", "s", ";">>}

\* text has no raw <, >, " or ' and no & that does not start an entity
IsEscaped(text) ==
    \A i \in 1..Len(text) :
        /\ text[i] \notin {"<", ">", "\"", "'"}
        /\ text[i] = "&"
            => \E e \in Entities :
                  /\ i + Len(e) - 1 <= Len(text)
                  /\ SubSeq(text, i, i + Len(e) - 1) = e

\* the names of the elements of an XML document, in document order
ElementNames(doc) ==
    [i \in 1..Len(SelectSeq(doc, LAMBDA t : t.k = "open")) |->
        SelectSeq(doc, LAMBDA t : t.k = "open")[i].name]

SecurityElements ==
    <<"G", "CLIENT_CODE", "CLIENT_USERNAME", "CLIENT_PASSWORD", "GUID">>

CardElements ==
    <<"KK_Bilgi", "KK_Sahibi", "KK_No", "KK_SK_Ay", "KK_SK_Yil", "KK_CVC",
      "KK_Saklama_Durumu">>

\* the elements the template of the returned operation defines
TemplateElements ==
    CASE op = "createPayment" ->
            <<"soap:Envelope", "soap:Body", "TP_Islem_Odeme">>
            \o SecurityElements \o CardElements
            \o <<"Taksit", "Islem_Tutar", "Toplam_Tutar", "Siparis_ID",
                 "Siparis_Aciklama", "Islem_Hash", "IPAdr", "Doviz_Kodu">>
      [] op = "initThreeDSPayment" ->
            <<"soap:Envelope", "soap:Body", "TP_Islem_Odeme_3D">>
            \o SecurityElements \o CardElements
            \o <<"Taksit", "Islem_Tutar", "Toplam_Tutar", "Siparis_ID",
                 "Siparis_Aciklama", "Islem_Hash", "IPAdr", "SUCCESS_URL",
                 "FAIL_URL", "Doviz_Kodu">>
      [] op = "refund" ->
            <<"soap:Envelope", "soap:Body", "TP_Islem_Iade">>
            \o SecurityElements \o <<"Islem_GUID", "Iade_Tutar", "IPAdr">>
      [] op = "cancel" ->
            <<"soap:Envelope", "soap:Body", "TP_Islem_Iptal">>
            \o SecurityElements \o <<"Islem_GUID", "IPAdr">>
      [] op = "getPayment" ->
            <<"soap:Envelope", "soap:Body", "TP_Islem_Sorgulama">>
            \o SecurityElements \o <<"Islem_GUID", "IPAdr">>
      [] op = "binCheck" ->
            <<"soap:Envelope", "soap:Body", "TP_Kart_Bilgi">>
            \o SecurityElements \o <<"Bin">>
      [] OTHER -> <<>>

\* C11: every text of every posted request is escaped (no raw <, >, " or ',
\* no & other than the start of one of the five entities), and the request
\* has exactly the elements of the operation's template, whatever the caller
\* supplied.
C11_RequestsAreEscaped ==
    Posted
        => \A r \in 1..Len(sent) :
              /\ \A t \in 1..Len(sent[r].envelope) :
                    IsEscaped(sent[r].envelope[t].value)
              /\ ElementNames(sent[r].envelope) = TemplateElements

\* a payment whose basket id, card, buyer address and credentials are all
\* made of the characters escapeXml replaces
C11_Witness ==
    /\ Posted
    /\ op = "createPayment"
    /\ input.basketId = HostileText
    /\ input.paymentCard[1].cardHolderName = HostileText
    /\ paramposConfig.clientPassword = HostileText
    /\ \E t \in 1..Len(sent[1].envelope) :
          /\ sent[1].envelope[t].k = "text"
          /\ sent[1].envelope[t - 1].name = "Siparis_ID"
          /\ sent[1].envelope[t].value = escapeXml(HostileText)

RECURSIVE XmlDecode(_)
\* the character data an XML reader gets from escaped text
XmlDecode(text) ==
    IF text = <<>> THEN <<>>
    ELSE IF \E e \in Entities : Len(text) >= Len(e) /\ SubSeq(text, 1, Len(e)) = e
    THEN LET e == CHOOSE e \in Entities :
                      Len(text) >= Len(e) /\ SubSeq(text, 1, Len(e)) = e
             char == CASE e[2] = "a" /\ e[3] = "m" -> "&"
                       [] e[2] = "l" -> "<"
                       [] e[2] = "g" -> ">"
                       [] e[2] = "q" -> "\""
                       [] OTHER -> "'"
         IN  <<char>> \o XmlDecode(SubSeq(text, Len(e) + 1, Len(text)))
    ELSE <<Head(text)>> \o XmlDecode(Tail(text))

\* the value of the first element called name of an XML document
ElementValue(doc, name) ==
    LET at == CHOOSE i \in 1..Len(doc) :
                  /\ doc[i] = Open(name)
                  /\ \A j \in 1..(i - 1) : doc[j] # Open(name)
    IN  IF doc[at + 1].k = "text" THEN XmlDecode(doc[at + 1].value) ELSE <<>>

\* C13: the Islem_Hash of a posted createPayment or initThreeDSPayment
\* request is the Base64 SHA-256 digest of the client code, the merchant
\* GUID and the values of Taksit, Islem_Tutar, Toplam_Tutar and Siparis_ID
\* of that same request, in this order.
C13_HashBindsSentValues ==
    (Posted /\ op \in {"createPayment", "initThreeDSPayment"})
        => \A r \in 1..Len(sent) :
              ElementValue(sent[r].envelope, "Islem_Hash")
                  = Sha256Base64(paramposConfig.clientCode
                                 \o paramposConfig.guid
                                 \o ElementValue(sent[r].envelope, "Taksit")
                                 \o ElementValue(sent[r].envelope, "Islem_Tutar")
                                 \o ElementValue(sent[r].envelope, "Toplam_Tutar")
                                 \o ElementValue(sent[r].envelope, "Siparis_ID"))

\* a 3D payment in three installments was posted: the total carries the fee
\* and differs from the transaction amount
C13_Witness ==
    /\ Posted
    /\ op = "initThreeDSPayment"
    /\ input.installment = 3
    /\ ElementValue(sent[1].envelope, "Taksit") = <<"3">>
    /\ ElementValue(sent[1].envelope, "Toplam_Tutar")
          # ElementValue(sent[1].envelope, "Islem_Tutar")
    /\ ElementValue(sent[1].envelope, "Islem_Hash")
          = Sha256Base64(paramposConfig.clientCode \o paramposConfig.guid
                         \o <<"3">>
                         \o ElementValue(sent[1].envelope, "Islem_Tutar")
                         \o ElementValue(sent[1].envelope, "Toplam_Tutar")
                         \o input.basketId)

----------------------------------------------------------------------------
(* The utility functions on their own *)

MaxText == 2

\* the strings of at most n characters of alphabet
TextsUpTo(alphabet, n) == UNION { [1..k -> alphabet] : k \in 0..n }

\* texts made of the characters escapeXml replaces and of two it keeps
XmlTexts == TextsUpTo({"a", ";", "&", "<", ">", "\"", "'"}, MaxText)

InstallmentCounts == {1, 3, 11}

\* clientCode, guid, installment, transactionAmount, totalAmount, orderId
PaymentHashArguments ==
    FieldStrings \X FieldStrings \X InstallmentCounts \X FieldStrings
        \X FieldStrings \X FieldStrings

\* islemGuid, md, mdStatus, orderId, guid
VerificationHashArguments ==
    FieldStrings \X FieldStrings \X MdStatuses \X FieldStrings \X FieldStrings

\* a tuple a hash was issued for and a tuple it is presented with, each
\* islemGuid, md, mdStatus, orderId, guid
VerificationPairs ==
    The({ tuples \X tuples :
          tuples \in {{<<"1">>, <<"1", "1">>} \X {<<"1">>, <<"1", "1">>}
                          \X MdStatuses \X {<<"1">>, <<"1", "1">>}
                          \X {MerchantGuid, <<"e">>}} })

\* an element of a reply: directly under the result element, or inside an
\* element within of the result element
ReplyElements ==
    {[name |-> "Sonuc", value |-> <<"1">>, within |-> ""],
     [name |-> "Hata_Kod", value |-> <<"E">>, within |-> ""],
     [name |-> "Sonuc_Str", value |-> <<"d">>, within |-> "Detay"],
     [name |-> "Sonuc", value |-> <<"0">>, within |-> "Detay"]}

MaxElements == 2

\* replies: the spelling of the result element, its elements in order, and
\* whether an element stands in the body before the result element
ParsedReplies ==
    [wrapper : {"TP_Islem_OdemeResult", "tp_islem_odemeresult"},
     elements : UNION { [1..k -> ReplyElements] : k \in 0..MaxElements },
     before : BOOLEAN]

RECURSIVE ElementsXml(_)
ElementsXml(elements) ==
    IF elements = <<>> THEN <<>>
    ELSE (IF Head(elements).within = ""
          THEN Element(Head(elements).name, Head(elements).value)
          ELSE <<Open(Head(elements).within)>>
               \o Element(Head(elements).name, Head(elements).value)
               \o <<Close(Head(elements).within)>>)
         \o ElementsXml(Tail(elements))

\* the SOAP document of a reply
ReplyXml(reply) ==
    <<Open("soap:Envelope"), Open("soap:Body")>>
        \o (IF reply.before THEN Element("Islem_GUID", <<"o">>) ELSE <<>>)
        \o <<Open(reply.wrapper)>>
        \o ElementsXml(reply.elements)
        \o <<Close(reply.wrapper), Close("soap:Body"), Close("soap:Envelope")>>

\* months as texts: every string of at most MaxText of these characters
MonthTexts == TextsUpTo({"0", "1", "2", "3", "9", "a"}, MaxText)

\* a % b of JavaScript for b > 0: the remainder has the sign of a
Remainder(a, b) == IF a >= 0 THEN a % b ELSE 0 - ((0 - a) % b)

validateTurkishIdentityNumber(identityNumber) ==
    IF ~(/\ Len(identityNumber) = 11
         /\ \A i \in 1..11 : IsDigit(identityNumber[i]))
    THEN FALSE
    ELSE
    LET digits == [i \in 1..11 |-> DigitVal(identityNumber[i])]
        sum1 == (digits[1] + digits[3] + digits[5] + digits[7] + digits[9]) * 7
        sum2 == digits[2] + digits[4] + digits[6] + digits[8]
        tenth == Remainder(sum1 - sum2, 10)
        sum3 == digits[1] + digits[2] + digits[3] + digits[4] + digits[5]
                + digits[6] + digits[7] + digits[8] + digits[9] + digits[10]
        eleventh == sum3 % 10
    IN  IF digits[1] = 0 THEN FALSE
        ELSE IF tenth # digits[10] THEN FALSE
        ELSE eleventh = digits[11]

\* identity numbers: eleven digits with the first four and the last two
\* varied, and strings that are too short, too long or not all digits
IdentityNumbers ==
    { <<d1, d2, d3, d4, "0", "0", "0", "0", "0", d10, d11>> :
        d1 \in {"0", "1", "7"}, d2 \in {"0", "9"}, d3 \in {"0", "5"},
        d4 \in {"0", "9"},
        d10 \in {Digits[i] : i \in 1..10}, d11 \in {Digits[i] : i \in 1..10} }
    \cup {<<"1", "2", "3">>,
          <<"1", "2", "3", "4", "5", "6", "7", "8", "9", "0", "1", "2">>,
          <<"1", "2", "3", "4", "5", "6", "7", "8", "9", "0", "a">>}

\* two argument lists that are equal or differ in exactly one argument
AtMostOneChanged(arguments) ==
    { pair \in arguments \X arguments :
        Cardinality({ i \in DOMAIN pair[1] : pair[1][i] # pair[2][i] }) <= 1 }

MaxAmountLen == 3
MaxDecimals == 3

\* every string of digits, points and a letter of at most MaxAmountLen
\* characters, and amounts with up to MaxDecimals decimals
AmountTexts ==
    TextsUpTo({"0", "1", "5", "9", ".", "a"}, MaxAmountLen)
    \cup { whole \o <<".">> \o decimals :
             whole \in {<<"0">>, <<"1">>, <<"8">>, <<"9", "9">>,
                        <<"1", "5", "0">>, <<"1", "0", "0", "0">>},
             decimals \in TextsUpTo({"0", "1", "5", "9"}, MaxDecimals) }

MaxInstallments == 13

\* an amount and an installment count; no amount times 1.02 .. 1.12 lies
\* halfway between two hundredths
TotalAmountArguments ==
    {<<"1", "0", "0", "0">>, <<"1", "0", "0", "0", ".", "0", "0">>,
     <<"1", "0", "0">>, <<"1">>, <<"9", "9", ".", "9", "9">>, <<"a">>}
        \X (0..MaxInstallments)

Currencies ==
    {<<"T", "R", "Y">>, <<"U", "S", "D">>, <<"E", "U", "R">>, <<"G", "B", "P">>}
ParamposCurrencies == {<<"T", "L">>, <<"U", "S">>, <<"E", "U">>, <<"G", "B">>}

\* the codes of both tables, codes of neither, and no code at all
CurrencyTexts ==
    Currencies \cup ParamposCurrencies \cup ObjectPrototypeKeys
        \cup {<<"J", "P", "Y">>, <<"t", "r", "y">>, <<"T">>, <<>>, Undefined}

UtilityFunctions ==
    {"escapeXml", "generateParamposPaymentHash",
     "generateParampos3DSVerificationHash", "formatParamposAmount",
     "calculateParamposTotalAmount", "mapCurrencyToParampos",
     "mapCurrencyFromParampos", "verifyParampos3DSCallback",
     "parseParamposSoapResponse", "formatParamposExpiryMonth",
     "validateTurkishIdentityNumber"}

UtilityInputs(fn) ==
    CASE fn = "escapeXml" -> XmlTexts
      [] fn = "generateParamposPaymentHash" ->
            AtMostOneChanged(PaymentHashArguments)
      [] fn = "generateParampos3DSVerificationHash" ->
            AtMostOneChanged(VerificationHashArguments)
      [] fn = "formatParamposAmount" -> AmountTexts
      [] fn = "calculateParamposTotalAmount" -> TotalAmountArguments
      [] fn = "mapCurrencyToParampos" -> CurrencyTexts
      [] fn = "mapCurrencyFromParampos" -> CurrencyTexts
      [] fn = "verifyParampos3DSCallback" -> VerificationPairs
      [] fn = "parseParamposSoapResponse" -> ParsedReplies
      [] fn = "formatParamposExpiryMonth" -> MonthTexts
      [] fn = "validateTurkishIdentityNumber" -> IdentityNumbers

\* a utility function is about to be called with input
UtilInit ==
    /\ op \in UtilityFunctions
    /\ input \in UtilityInputs(op)
    /\ pc = "idle"
    /\ paramposConfig = CHOOSE config \in Configs : TRUE
    /\ http = NoHttp
    /\ sent = <<>>
    /\ result = NoResponse
    /\ thrown = Undefined
    /\ tamperedFrom = <<>>
    /\ pending = {}

\* the call of a utility function returns
Apply(fn, outcome) ==
    /\ pc = "idle"
    /\ op = fn
    /\ pc' = "returned"
    /\ result' = outcome
    /\ UNCHANGED <<paramposConfig, op, input, http, sent, thrown, tamperedFrom,
                   pending>>

\* escapeXml(input) is sent back as the text of <Sonuc_Str> and parsed
EscapeXml ==
    Apply("escapeXml",
          parseParamposSoapResponse(
              <<Open("TP_Islem_OdemeResult")>>
                  \o Element("Sonuc_Str", escapeXml(input))
                  \o <<Close("TP_Islem_OdemeResult")>>,
              "TP_Islem_OdemeResult"))

\* the payment hash of each of the two argument lists of input
GenerateParamposPaymentHash ==
    Apply("generateParamposPaymentHash",
          [i \in 1..2 |->
              generateParamposPaymentHash(
                  input[i][1], input[i][2], NumToStr(input[i][3]),
                  input[i][4], input[i][5], input[i][6])])

\* the verification hash of each of the two argument lists of input
GenerateParampos3DSVerificationHash ==
    Apply("generateParampos3DSVerificationHash",
          [i \in 1..2 |->
              generateParampos3DSVerificationHash(
                  input[i][1], input[i][2], input[i][3], input[i][4],
                  input[i][5])])

FormatParamposAmount ==
    Apply("formatParamposAmount", formatParamposAmount(input))

CalculateParamposTotalAmount ==
    Apply("calculateParamposTotalAmount",
          calculateParamposTotalAmount(input[1], input[2]))

MapCurrencyToParampos ==
    Apply("mapCurrencyToParampos", mapCurrencyToParampos(input))

MapCurrencyFromParampos ==
    Apply("mapCurrencyFromParampos", mapCurrencyFromParampos(input))

\* the hash of the first tuple is verified against the second tuple
VerifyParampos3DSCallback ==
    Apply("verifyParampos3DSCallback",
          verifyParampos3DSCallback(
              input[2][1], input[2][2], input[2][3], input[2][4], input[2][5],
              generateParampos3DSVerificationHash(
                  input[1][1], input[1][2], input[1][3], input[1][4],
                  input[1][5])))

ParseParamposSoapResponse ==
    Apply("parseParamposSoapResponse",
          parseParamposSoapResponse(ReplyXml(input), "TP_Islem_OdemeResult"))

FormatParamposExpiryMonth ==
    Apply("formatParamposExpiryMonth", formatParamposExpiryMonth(input))

ValidateTurkishIdentityNumber ==
    Apply("validateTurkishIdentityNumber", validateTurkishIdentityNumber(input))

UtilNext ==
    \/ EscapeXml
    \/ GenerateParamposPaymentHash
    \/ GenerateParampos3DSVerificationHash
    \/ FormatParamposAmount
    \/ CalculateParamposTotalAmount
    \/ MapCurrencyToParampos
    \/ MapCurrencyFromParampos
    \/ VerifyParampos3DSCallback
    \/ ParseParamposSoapResponse
    \/ FormatParamposExpiryMonth
    \/ ValidateTurkishIdentityNumber

UtilSpec == UtilInit /\ [][UtilNext]_vars

\* C12: a string escaped with escapeXml, placed as the text of an element and
\* parsed with parseParamposSoapResponse, comes back as the original string.
C12_EscapeRoundTrip ==
    (pc = "returned" /\ op = "escapeXml")
        => result.ok /\ result.value.Sonuc_Str = input

Hashed ==
    /\ pc = "returned"
    /\ op \in {"generateParamposPaymentHash",
               "generateParampos3DSVerificationHash"}

\* C14: both hash generators give equal hashes for equal argument lists and
\* different hashes for two argument lists that differ in exactly one
\* argument, whichever argument it is.
C14_HashSeparatesEachField ==
    Hashed => (result[1] = result[2] <=> input[1] = input[2])

\* two payment hashes whose arguments differ in the installment count only
C14_Witness ==
    /\ Hashed
    /\ op = "generateParamposPaymentHash"
    /\ input[1][3] # input[2][3]
    /\ \A i \in {1, 2, 4, 5, 6} : input[1][i] = input[2][i]
    /\ result[1] # result[2]

Formatted == pc = "returned" /\ op = "formatParamposAmount"

\* text is a decimal number: digits, with at most one point among them
IsDecimalNumber(text) ==
    /\ \E i \in 1..Len(text) : IsDigit(text[i])
    /\ \A i \in 1..Len(text) : IsDigit(text[i]) \/ text[i] = "."
    /\ Cardinality({ i \in 1..Len(text) : text[i] = "." }) <= 1

\* text is digits, a point and two digits
HasTwoDecimals(text) ==
    /\ Len(text) >= 4
    /\ text[Len(text) - 2] = "."
    /\ \A i \in 1..Len(text) : i # Len(text) - 2 => IsDigit(text[i])

\* C15: formatParamposAmount raises "Invalid amount" for every string that is
\* not a decimal number, and returns a string with exactly two decimals for
\* every number.
C15_RejectsNonNumbers ==
    Formatted
        => IF IsDecimalNumber(input)
           THEN result.ok /\ HasTwoDecimals(result.value)
           ELSE ~result.ok /\ result.message = <<"Invalid amount: ">> \o input

\* the decimals of a decimal number
DecimalsOf(text) ==
    IF \E i \in 1..Len(text) : text[i] = "."
    THEN Len(text) - (CHOOSE i \in 1..Len(text) : text[i] = ".")
    ELSE 0

\* the decimal x of at most three decimals rounded half up to hundredths
HalfUp(x) ==
    LET cents == (x.n * Pow10(3 - x.scale) + 5) \div 10
    IN  NumToStr(cents \div 100) \o <<".">>
            \o <<Digits[((cents \div 10) % 10) + 1], Digits[(cents % 10) + 1]>>

\* C16: for an amount of at most three decimals formatParamposAmount returns
\* the amount rounded half up to two decimals.
C16_RoundsHalfUp ==
    (Formatted /\ IsDecimalNumber(input) /\ DecimalsOf(input) <= 3)
        => result.ok /\ result.value = HalfUp(ParseFloat(input))

Calculated == pc = "returned" /\ op = "calculateParamposTotalAmount"

\* C17: for an amount and n installments calculateParamposTotalAmount returns
\* the amount itself, formatted, when n <= 1, and for 2 <= n <= 12 the
\* amount times (1 + n / 100) to the nearest hundredth.
C17_InstallmentFee ==
    (Calculated /\ IsDecimalNumber(input[1]))
        => LET amount == ParseFloat(input[1])
               n == input[2]
               total == ParseFloat(result.value)
           IN  /\ result.ok
               /\ HasTwoDecimals(result.value)
               /\ n <= 1 => total.n * Pow10(amount.scale) = amount.n * 100
               /\ n \in 2..12 =>
                     LET exact == amount.n * (100 + n)
                         given == total.n * Pow10(amount.scale)
                     IN  /\ 2 * (given - exact) <= Pow10(amount.scale)
                         /\ 2 * (exact - given) <= Pow10(amount.scale)

\* 1000 in twelve installments is 1120.00
C17_Witness ==
    /\ Calculated
    /\ input = <<<<"1", "0", "0", "0">>, 12>>
    /\ result.ok
    /\ result.value = <<"1", "1", "2", "0", ".", "0", "0">>

\* the table of the two currency mappings
ParamposCodeOf(currency) ==
    CASE currency = <<"T", "R", "Y">> -> <<"T", "L">>
      [] currency = <<"U", "S", "D">> -> <<"U", "S">>
      [] currency = <<"E", "U", "R">> -> <<"E", "U">>
      [] currency = <<"G", "B", "P">> -> <<"G", "B">>

\* C18: mapCurrencyToParampos maps TRY, USD, EUR and GBP to TL, US, EU and
\* GB and every other input to TL; mapping the result back with
\* mapCurrencyFromParampos gives the currency again for each of the four;
\* mapCurrencyFromParampos maps every code other than TL, US, EU, GB to TRY.
C18_TotalAndDefaultSafe ==
    /\ (pc = "returned" /\ op = "mapCurrencyToParampos")
          => IF input \in Currencies
             THEN /\ result = ParamposCodeOf(input)
                  /\ mapCurrencyFromParampos(result) = input
             ELSE result = <<"T", "L">>
    /\ (pc = "returned" /\ op = "mapCurrencyFromParampos")
          => (input \notin ParamposCurrencies => result = <<"T", "R", "Y">>)

----------------------------------------------------------------------------
(* Construction: the adapter and the facade that instantiates providers *)

\* the constructor of the parent class, which requires an API key
PaymentProviderConstructor(config) ==
    IF Falsy(config.apiKey) THEN Throw(<<"API Key is required">>)
    ELSE Return(config)

\* a validateParamposConfig that requires no client username
ValidateWithoutUsername(config) ==
    IF Falsy(config.clientCode)
    THEN Throw(<<"Parampos Client Code is required">>)
    ELSE IF Falsy(config.clientPassword)
    THEN Throw(<<"Parampos Client Password is required">>)
    ELSE IF Falsy(config.guid) THEN Throw(<<"Parampos GUID is required">>)
    ELSE Return(config)

\* Parampos.validateParamposConfig
validateParamposConfig(config) ==
    IF Falsy(config.clientCode)
    THEN Throw(<<"Parampos Client Code is required">>)
    ELSE IF Falsy(config.clientUsername)
    THEN Throw(<<"Parampos Client Username is required">>)
    ELSE IF Falsy(config.clientPassword)
    THEN Throw(<<"Parampos Client Password is required">>)
    ELSE IF Falsy(config.guid) THEN Throw(<<"Parampos GUID is required">>)
    ELSE Return(config)

\* new Parampos(config): the configuration the adapter keeps, or the error
\* of the parent constructor or of validateParamposConfig
ParamposConstructor(config) ==
    The({ IF ~parent.ok THEN parent ELSE validateParamposConfig(config) :
          parent \in {PaymentProviderConstructor(
                          [apiKey |-> config.guid,
                           secretKey |-> config.clientPassword])} })

MaxMissing == 2

\* the providers in the order initializeProviders goes through them
ProviderTypes == <<"iyzico", "paytr", "akbank", "parampos">>

\* the fields of a provider's configuration
ConfigFields(provider) ==
    CASE provider = "iyzico" -> {"apiKey", "secretKey", "baseUrl"}
      [] provider = "paytr" ->
            {"merchantId", "merchantKey", "secretKey", "merchantSalt", "baseUrl"}
      [] provider = "akbank" ->
            {"merchantId", "terminalId", "storeKey", "baseUrl"}
      [] provider = "parampos" ->
            {"clientCode", "clientUsername", "clientPassword", "guid", "baseUrl"}

\* the checks of a provider's validator, in order: the field read, the field
\* named by the entry, and the entry pushed to missingFields when the field
\* read is falsy
Checks(provider) ==
    CASE provider = "iyzico" ->
            <<<<"apiKey", "apiKey",
               "apiKey (IYZICO_API_KEY)">>,
              <<"secretKey", "secretKey",
               "secretKey (IYZICO_SECRET_KEY)">>,
              <<"baseUrl", "baseUrl",
               "baseUrl (IYZICO_BASE_URL)">>>>
      [] provider = "paytr" ->
            <<<<"merchantId", "merchantId",
               "merchantId (PAYTR_MERCHANT_ID)">>,
              <<"secretKey", "merchantKey",
               "merchantKey (PAYTR_MERCHANT_KEY)">>,
              <<"merchantSalt", "merchantSalt",
               "merchantSalt (PAYTR_MERCHANT_SALT)">>,
              <<"baseUrl", "baseUrl",
               "baseUrl (PAYTR_BASE_URL)">>>>
      [] provider = "akbank" ->
            <<<<"merchantId", "merchantId",
               "merchantId (AKBANK_MERCHANT_ID)">>,
              <<"terminalId", "terminalId",
               "terminalId (AKBANK_TERMINAL_ID)">>,
              <<"storeKey", "storeKey",
               "storeKey (AKBANK_STORE_KEY)">>,
              <<"baseUrl", "baseUrl",
               "baseUrl (AKBANK_BASE_URL)">>>>
      [] provider = "parampos" ->
            <<<<"clientCode", "clientCode",
               "clientCode (PARAMPOS_CLIENT_CODE)">>,
              <<"clientUsername", "clientUsername",
               "clientUsername (PARAMPOS_CLIENT_USERNAME)">>,
              <<"clientPassword", "clientPassword",
               "clientPassword (PARAMPOS_CLIENT_PASSWORD)">>,
              <<"guid", "guid",
               "guid (PARAMPOS_GUID)">>,
              <<"baseUrl", "baseUrl",
               "baseUrl (PARAMPOS_BASE_URL)">>>>

MissingFieldsHeader(provider) ==
    CASE provider = "iyzico" ->
            "Iyzico provider configuration is missing required fields:"
      [] provider = "paytr" ->
            "PayTR provider configuration is missing required fields:"
      [] provider = "akbank" ->
            "Akbank provider configuration is missing required fields:"
      [] provider = "parampos" ->
            "Parampos provider configuration is missing required fields:"

\* validateIyzicoConfig, validatePayTRConfig, validateAkbankConfig and the
\* facade's validateParamposConfig: the entries of the falsy fields are
\* collected and, when there are any, thrown in one error
validateConfig(provider, config) ==
    The({ IF Len(missingFields) > 0
          THEN Throw(<<MissingFieldsHeader(provider)>>
                     \o [i \in 1..Len(missingFields) |-> missingFields[i][3]]
                     \o <<"Please add these environment variables to your .env file">>)
          ELSE Return(config) :
          missingFields \in {SelectSeq(Checks(provider),
                                LAMBDA check : Falsy(config[check[1]]))} })

\* new Iyzico(config), new PayTR(config), new Akbank(config) and
\* new Parampos(config) on a configuration its validator accepted
NewProvider(provider, config) ==
    IF provider = "parampos" THEN ParamposConstructor(config)
    ELSE Return(config)

RECURSIVE InitializeFrom(_, _, _)
\* initializeProviders from the i-th provider on, with instances created
InitializeFrom(config, i, instances) ==
    IF i > Len(ProviderTypes)
    THEN [ok |-> TRUE, providers |-> instances, message |-> Undefined]
    ELSE
    LET provider == ProviderTypes[i]
        entry == config.providers[provider]
    IN  IF entry = <<>> \/ ~entry[1].enabled
        THEN InitializeFrom(config, i + 1, instances)
        ELSE The({
            IF ~made.ok
            THEN [ok |-> FALSE, providers |-> instances, message |-> made.message]
            ELSE InitializeFrom(config, i + 1, instances \cup {provider}) :
            made \in {The({ IF ~valid.ok THEN valid
                            ELSE NewProvider(provider, entry[1].config) :
                            valid \in {validateConfig(provider,
                                                      entry[1].config)} })} })

\* a constructor that keeps the configured default provider unchecked
InitializeKeepingAnyDefault(config) ==
    The({ IF ~made.ok
          THEN [made EXCEPT !.providers = {}] @@ [defaultProvider |-> ""]
          ELSE made @@ [defaultProvider |->
                  IF config.defaultProvider = ""
                     /\ Cardinality(made.providers) = 1
                  THEN CHOOSE provider \in made.providers : TRUE
                  ELSE config.defaultProvider] :
          made \in {InitializeFrom(config, 1, {})} })

\* the constructor of BetterPay: the providers it holds and its default
\* provider, or the error it throws ("" is no default provider)
initializeProviders(config) ==
    The({ IF ~made.ok
          THEN [made EXCEPT !.providers = {}] @@ [defaultProvider |-> ""]
          ELSE IF config.defaultProvider # ""
                  /\ config.defaultProvider \notin made.providers
          THEN [ok |-> FALSE, providers |-> {}, defaultProvider |-> "",
                message |-> <<"Default provider '", config.defaultProvider,
                              "' is not enabled or configured">>]
          ELSE made @@ [defaultProvider |->
                  IF config.defaultProvider = ""
                     /\ Cardinality(made.providers) = 1
                  THEN CHOOSE provider \in made.providers : TRUE
                  ELSE config.defaultProvider] :
          made \in {InitializeFrom(config, 1, {})} })

\* the value of a field that is set
SetValue == <<"x">>

\* configurations of a provider with at most MaxMissing fields missing
ProviderConfigs(provider) ==
    { [field \in ConfigFields(provider) |->
          IF field \in missing THEN <<>> ELSE SetValue] :
        missing \in { fields \in SUBSET ConfigFields(provider) :
                        Cardinality(fields) <= MaxMissing } }

\* a provider is absent, disabled with nothing configured, or enabled
ProviderEntries(provider) ==
    {<<>>,
     <<[enabled |-> FALSE,
        config |-> [field \in ConfigFields(provider) |-> <<>>]]>>}
    \cup { <<[enabled |-> TRUE, config |-> config]>> :
             config \in ProviderConfigs(provider) }

BetterPayConfigs ==
    [providers : [iyzico : ProviderEntries("iyzico"),
                  paytr : ProviderEntries("paytr"),
                  akbank : ProviderEntries("akbank"),
                  parampos : ProviderEntries("parampos")],
     defaultProvider : {"", "parampos"}]

\* new BetterPay(input) is about to run
FacadeInit ==
    /\ input \in BetterPayConfigs
    /\ pc = "new"
    /\ op = "BetterPay"
    /\ paramposConfig = CHOOSE config \in Configs : TRUE
    /\ http = NoHttp
    /\ sent = <<>>
    /\ result = NoResponse
    /\ thrown = Undefined
    /\ tamperedFrom = <<>>
    /\ pending = {}

\* the constructor of BetterPay returns or throws
NewBetterPay ==
    /\ pc = "new"
    /\ op = "BetterPay"
    /\ pc' = "returned"
    /\ LET made == initializeProviders(input)
       IN  /\ result' = [providers |-> made.providers,
                         defaultProvider |-> made.defaultProvider]
           /\ thrown' = made.message
    /\ UNCHANGED <<paramposConfig, op, input, http, sent, tamperedFrom, pending>>

FacadeNext ==
    \/ NewBetterPay

FacadeSpec == FacadeInit /\ [][FacadeNext]_vars

\* the provider has an entry with enabled set
IsEnabled(provider) ==
    /\ input.providers[provider] # <<>>
    /\ input.providers[provider][1].enabled

\* the fields the entries of a provider's validator name
RequiredFields(provider) ==
    { Checks(provider)[i][2] : i \in 1..Len(Checks(provider)) }

\* the required fields the configuration of an enabled provider lacks
MissingOf(provider) ==
    { field \in RequiredFields(provider) :
        Falsy(input.providers[provider][1].config[field]) }

\* the entry that names field in the error of a provider's validator
EntryOf(provider, field) ==
    Checks(provider)[CHOOSE i \in 1..Len(Checks(provider)) :
                         Checks(provider)[i][2] = field][3]

\* the enabled providers whose configuration lacks a required field, by
\* their place in the order of initialisation
Incomplete ==
    { i \in 1..Len(ProviderTypes) :
        IsEnabled(ProviderTypes[i]) /\ MissingOf(ProviderTypes[i]) # {} }

Built == pc = "returned" /\ op = "BetterPay"

\* C19: when an enabled provider's configuration lacks required fields the
\* constructor of BetterPay throws, and the error is the first such
\* provider's and has the entry of every field that provider lacks; a
\* provider that is absent or not enabled is neither instantiated nor the
\* subject of the error.
C19_EnumeratesMissingFields ==
    Built
        => /\ Incomplete # {}
                => LET first == CHOOSE i \in Incomplete :
                                    \A j \in Incomplete : i <= j
                       provider == ProviderTypes[first]
                   IN  /\ thrown # Undefined
                       /\ thrown[1] = MissingFieldsHeader(provider)
                       /\ \A field \in MissingOf(provider) :
                             \E k \in 1..Len(thrown) :
                                 thrown[k] = EntryOf(provider, field)
           /\ \A i \in 1..Len(ProviderTypes) :
                 ~IsEnabled(ProviderTypes[i])
                     => /\ ProviderTypes[i] \notin result.providers
                        /\ thrown # Undefined
                              => thrown[1] # MissingFieldsHeader(ProviderTypes[i])

\* configurations a caller may pass to new Parampos: each credential is set,
\* empty or left out
CandidateConfigs ==
    [clientCode : {<<"c">>, <<>>, Undefined},
     clientUsername : {<<"u">>, <<>>, Undefined},
     clientPassword : {<<"p">>, HostileText, <<>>, Undefined},
     guid : {MerchantGuid, <<>>, Undefined}]

\* new Parampos(input) is about to run; there is no adapter yet
AdapterInit ==
    /\ input \in CandidateConfigs
    /\ pc = "new"
    /\ op = "Parampos"
    /\ paramposConfig = Undefined
    /\ http = NoHttp
    /\ sent = <<>>
    /\ result = NoResponse
    /\ thrown = Undefined
    /\ tamperedFrom = <<>>
    /\ pending = {}

\* the constructor of Parampos throws, or leaves an adapter that keeps the
\* configuration and waits for calls
NewParampos ==
    /\ pc = "new"
    /\ op = "Parampos"
    /\ LET made == ParamposConstructor(input)
       IN  IF made.ok
           THEN /\ pc' = "idle"
                /\ op' = "none"
                /\ paramposConfig' = input
                /\ input' = Undefined
                /\ thrown' = Undefined
           ELSE /\ pc' = "failed"
                /\ thrown' = made.message
                /\ UNCHANGED <<paramposConfig, op, input>>
    /\ UNCHANGED <<http, sent, result, tamperedFrom, pending>>

AdapterNext ==
    \/ NewParampos
    \/ Next

AdapterSpec == AdapterInit /\ [][AdapterNext]_vars

\* the four credentials of a configuration are all non-empty
HasCredentials(config) ==
    /\ ~Falsy(config.clientCode)
    /\ ~Falsy(config.clientUsername)
    /\ ~Falsy(config.clientPassword)
    /\ ~Falsy(config.guid)

\* C20: the constructor of Parampos raises exactly when clientCode,
\* clientUsername, clientPassword or guid is empty, so an adapter that exists,
\* waiting for a call or having answered one, has all four credentials.
C20_NoAdapterWithoutCredentials ==
    /\ pc = "failed" => ~HasCredentials(input) /\ thrown # Undefined
    /\ pc \in {"idle", "returned"} => HasCredentials(paramposConfig)

\* the constructor raised for a configuration whose client username is empty
C20_Witness ==
    /\ pc = "failed"
    /\ input.clientUsername = <<>>
    /\ HasCredentials([input EXCEPT !.clientUsername = <<"u">>])
    /\ thrown = <<"Parampos Client Username is required">>

----------------------------------------------------------------------------
(* Transactions over a sequence of operations *)

\* C21: completeThreeDSPayment answers SUCCESS for a payment id only after
\* initThreeDSPayment has returned PENDING for that payment id.
C21_SuccessOnlyAfterPending ==
    (Completed /\ result.status = SUCCESS) => result.paymentId \in pending

----------------------------------------------------------------------------
(* Concurrent calls on one adapter *)

\* the calls in flight at once
MaxCalls == 2
Calls == 1..MaxCalls

AdapterOperations ==
    {"createPayment", "initThreeDSPayment", "completeThreeDSPayment", "refund",
     "cancel", "getPayment", "binCheck"}

\* an operation of the adapter on its argument, outcome being what the
\* transport answers to the request the operation posts
Invoke(name, config, argument, outcome) ==
    CASE name = "createPayment" -> createPayment(config, argument, outcome)
      [] name = "initThreeDSPayment" ->
            initThreeDSPayment(config, argument, outcome)
      [] name = "completeThreeDSPayment" ->
            Returned(completeThreeDSPayment(config, argument), <<>>)
      [] name = "refund" -> refund(config, argument, outcome)
      [] name = "cancel" -> cancel(config, argument, outcome)
      [] name = "getPayment" -> getPayment(config, argument, outcome)
      [] name = "binCheck" -> binCheck(config, argument, outcome)

ResultTagOf(name) ==
    CASE name = "createPayment" -> "TP_Islem_OdemeResult"
      [] name = "initThreeDSPayment" -> "TP_Islem_Odeme_3DResult"
      [] name = "refund" -> "TP_Islem_IadeResult"
      [] name = "cancel" -> "TP_Islem_IptalResult"
      [] name = "getPayment" -> "TP_Islem_SorgulamaResult"
      [] name = "binCheck" -> "TP_Kart_BilgiResult"
      [] OTHER -> ""

ConcurrentCallback(hash) ==
    [islemGUID |-> <<"1">>, md |-> <<"1">>, mdStatus |-> <<"1">>,
     orderId |-> <<"1">>, GUID |-> Undefined, hash |-> hash,
     Sonuc |-> Undefined, Sonuc_Str |-> Undefined]

ConcurrentArguments(name) ==
    CASE name = "createPayment" ->
            {BasePaymentRequest}
      [] name = "initThreeDSPayment" ->
            {BasePaymentRequest @@ [callbackUrl |-> <<"u">>, installment |-> 3]}
      [] name = "completeThreeDSPayment" ->
            {ConcurrentCallback(generateParampos3DSVerificationHash(
                 <<"1">>, <<"1">>, <<"1">>, <<"1">>, MerchantGuid))}
      [] name = "refund" ->
            {[paymentId |-> <<"t">>, price |-> <<"5">>, ip |-> <<"i">>,
              conversationId |-> <<"k">>]}
      [] name = "cancel" ->
            {[paymentId |-> <<"t">>, ip |-> <<"i">>, conversationId |-> <<"k">>]}
      [] name = "getPayment" -> {<<"t">>}
      [] name = "binCheck" -> {<<"5", "5">>}

ConcurrentOutcomes(name) ==
    {HttpError(<<"Network Error">>),
     HttpResponse(ReplyDoc(ResultTagOf(name),
                           [Sonuc |-> <<"1">>, Sonuc_Str |-> Undefined,
                            Hata_Kod |-> Undefined, details |-> TRUE]))}

\* a continuation that reads the reply out of the first call's frame
ReplyOfFirstCall(replies, c) == replies[1]

\* the reply a call resumes with: the value its own await produced
OwnReply(replies, c) == replies[c]

\* sent keeps, for each call, the request it posted and the calls that were
\* awaiting their replies when it posted
NothingSent == [posted |-> <<>>, beside |-> {}]

ConcurrentInit ==
    /\ paramposConfig \in {c \in Configs : c.clientPassword = <<"p">>}
    /\ pc = [c \in Calls |-> "idle"]
    /\ op = [c \in Calls |-> "none"]
    /\ input = [c \in Calls |-> Undefined]
    /\ http = [c \in Calls |-> NoHttp]
    /\ sent = [c \in Calls |-> NothingSent]
    /\ result = [c \in Calls |-> NoResponse]
    /\ thrown = [c \in Calls |-> Undefined]
    /\ tamperedFrom = <<>>
    /\ pending = {}

\* a call runs up to its await of the transport, or to its end when it has none
StartCall(c) ==
    /\ pc[c] = "idle"
    /\ \E name \in AdapterOperations :
        \E argument \in ConcurrentArguments(name) :
        \E begun \in {Invoke(name, paramposConfig, argument, NoHttp)} :
            /\ op' = [op EXCEPT ![c] = name]
            /\ input' = [input EXCEPT ![c] = argument]
            /\ IF begun.sent = <<>>
               THEN /\ pc' = [pc EXCEPT ![c] = "returned"]
                    /\ result' = [result EXCEPT ![c] = begun.result]
                    /\ thrown' = [thrown EXCEPT ![c] = begun.thrown]
                    /\ sent' = sent
               ELSE /\ pc' = [pc EXCEPT ![c] = "awaiting"]
                    /\ sent' = [sent EXCEPT ![c] =
                                    [posted |-> begun.sent,
                                     beside |-> {d \in Calls :
                                                    pc[d] = "awaiting"}]]
                    /\ UNCHANGED <<result, thrown>>
    /\ UNCHANGED <<paramposConfig, http, tamperedFrom, pending>>

\* the transport answers a call and the call runs from its await to its end
FinishCall(c) ==
    /\ pc[c] = "awaiting"
    /\ \E outcome \in ConcurrentOutcomes(op[c]) :
        \E done \in {Invoke(op[c], paramposConfig, input[c],
                            OwnReply([http EXCEPT ![c] = outcome], c))} :
            /\ http' = [http EXCEPT ![c] = outcome]
            /\ result' = [result EXCEPT ![c] = done.result]
            /\ thrown' = [thrown EXCEPT ![c] = done.thrown]
    /\ pc' = [pc EXCEPT ![c] = "returned"]
    /\ UNCHANGED <<paramposConfig, op, input, sent, tamperedFrom, pending>>

ConcurrentNext == \E c \in Calls : StartCall(c) \/ FinishCall(c)

ConcurrentSpec == ConcurrentInit /\ [][ConcurrentNext]_vars

\* what the call alone gives: its operation on its own request and the reply
\* to its own request
Alone(c) == Invoke(op[c], paramposConfig, input[c], http[c])

----------------------------------------------------------------------------
(* What an operation sends *)

\* C23: when the card, the buyer or the basket is missing from the request
\* of createPayment, no request is sent to the provider.
C23_NoRequestWithoutSubObjects ==
    (/\ pc = "returned"
     /\ op = "createPayment"
     /\ \/ input.paymentCard = <<>>
        \/ input.buyer = <<>>
        \/ input.basketItems = <<>>)
    => sent = <<>>

\* C24: an invocation of createPayment, initThreeDSPayment, refund, cancel,
\* getPayment or binCheck sends at most one request, also when the request
\* fails or its reply cannot be parsed; completeThreeDSPayment sends none.
C24_AtMostOneRequest ==
    pc = "returned" =>
        /\ Len(sent) <= 1
        /\ op = "completeThreeDSPayment" => sent = <<>>

\* the one request of a refund failed in the transport and was not repeated
C24_Witness ==
    /\ pc = "returned"
    /\ op = "refund"
    /\ http.kind = "error"
    /\ Len(sent) = 1
    /\ result.status = FAILURE

----------------------------------------------------------------------------
(* The default provider of BetterPay *)

NoDefaultProviderMessage ==
    <<"No default provider set. Please specify a provider using .use() method or set defaultProvider in configuration.">>

\* use(providerType) on a BetterPay that holds providers
use(providers, providerType) ==
    IF providerType \notin providers
    THEN Throw(<<"Provider '", providerType, "' is not enabled or configured. Please check your BetterPay configuration.">>)
    ELSE Return(providerType)

\* getDefaultProvider() on a BetterPay with its providers and default provider
getDefaultProvider(providers, defaultProvider) ==
    IF defaultProvider = "" THEN Throw(NoDefaultProviderMessage)
    ELSE use(providers, defaultProvider)

\* the operations BetterPay hands to its default provider
DefaultOperations ==
    {"createPayment", "initThreeDSPayment", "completeThreeDSPayment", "refund",
     "cancel", "getPayment"}

\* a provider is absent, disabled, enabled with nothing configured, or
\* enabled with every field set
DefaultEntries(provider) ==
    {<<>>,
     <<[enabled |-> FALSE,
        config |-> [field \in ConfigFields(provider) |-> <<>>]]>>,
     <<[enabled |-> TRUE,
        config |-> [field \in ConfigFields(provider) |-> <<>>]]>>,
     <<[enabled |-> TRUE,
        config |-> [field \in ConfigFields(provider) |-> SetValue]]>>}

DefaultConfigs ==
    [providers : [iyzico : DefaultEntries("iyzico"),
                  paytr : DefaultEntries("paytr"),
                  akbank : DefaultEntries("akbank"),
                  parampos : DefaultEntries("parampos")],
     defaultProvider : {""} \cup {ProviderTypes[i] : i \in 1..Len(ProviderTypes)}]

\* new BetterPay(input) is about to run
DefaultInit ==
    /\ input \in DefaultConfigs
    /\ pc = "new"
    /\ op = "BetterPay"
    /\ paramposConfig = CHOOSE config \in Configs : TRUE
    /\ http = NoHttp
    /\ sent = <<>>
    /\ result = NoResponse
    /\ thrown = Undefined
    /\ tamperedFrom = <<>>
    /\ pending = {}

\* an operation is called on the BetterPay that was constructed: it throws
\* what getDefaultProvider throws, or the call goes to the default provider,
\* which sent then names
DefaultProviderOperation(name) ==
    /\ pc = "returned"
    /\ op = "BetterPay"
    /\ thrown = Undefined
    /\ pc' = "called"
    /\ op' = name
    /\ \E provider \in {getDefaultProvider(result.providers,
                                          result.defaultProvider)} :
        /\ thrown' = provider.message
        /\ sent' = IF provider.ok THEN <<provider.value>> ELSE <<>>
    /\ UNCHANGED <<paramposConfig, input, http, result, tamperedFrom, pending>>

DefaultNext ==
    \/ NewBetterPay
    \/ \E name \in DefaultOperations : DefaultProviderOperation(name)

DefaultSpec == DefaultInit /\ [][DefaultNext]_vars

\* the providers the configuration enables
EnabledProviders ==
    { ProviderTypes[i] : i \in {j \in 1..Len(ProviderTypes) :
                                    IsEnabled(ProviderTypes[j])} }

\* a BetterPay exists: its constructor returned
Constructed ==
    \/ pc = "returned" /\ op = "BetterPay" /\ thrown = Undefined
    \/ pc = "called"

\* C25: the constructor throws when the configured default provider is not
\* enabled; on a BetterPay that exists the providers are the enabled ones, a
\* set default provider is one of them, and with none configured the default
\* is the single enabled provider or is not set; with none configured and
\* zero or several providers enabled each default-provider operation throws
\* "No default provider set ..." and no provider is called.
C25_DefaultProviderIsEnabled ==
    /\ (/\ pc = "returned"
        /\ op = "BetterPay"
        /\ input.defaultProvider # ""
        /\ input.defaultProvider \notin EnabledProviders)
       => thrown # Undefined
    /\ Constructed =>
        /\ result.providers = EnabledProviders
        /\ result.defaultProvider # "" =>
                result.defaultProvider \in result.providers
        /\ input.defaultProvider = "" =>
                IF Cardinality(EnabledProviders) = 1
                THEN result.defaultProvider \in EnabledProviders
                ELSE result.defaultProvider = ""
    /\ (/\ pc = "called"
        /\ input.defaultProvider = ""
        /\ Cardinality(EnabledProviders) # 1)
       => thrown = NoDefaultProviderMessage /\ sent = <<>>

\* two providers are enabled, none is configured as default, and refund
\* throws
C25_Witness ==
    /\ pc = "called"
    /\ op = "refund"
    /\ input.defaultProvider = ""
    /\ EnabledProviders = {"iyzico", "parampos"}
    /\ thrown = NoDefaultProviderMessage
    /\ sent = <<>>

----------------------------------------------------------------------------
(* The utility functions on their own: verification, parsing, validation *)

\* C26: the hash of one tuple (islemGUID, md, mdStatus, orderId, GUID) does
\* not verify with the fields of a tuple that differs from it in at least
\* one field.
C26_HashBindsWholeTuple ==
    (/\ pc = "returned"
     /\ op = "verifyParampos3DSCallback"
     /\ input[1] # input[2])
    => result = FALSE

----------------------------------------------------------------------------
(* The amounts of a payment request *)

\* the total the claim gives for a posted payment request
TotalOf(name, request) ==
    IF name = "initThreeDSPayment" /\ request.installment > 1
    THEN calculateParamposTotalAmount(request.price, request.installment).value
    ELSE formatParamposAmount(request.paidPrice).value

\* C27: a posted initThreeDSPayment request carries as Toplam_Tutar, and as
\* the total in its Islem_Hash, the formatted paidPrice when installment is
\* absent, 0 or 1, and the price raised by the rate of the installment count
\* when installment is above 1; a posted createPayment request carries
\* Taksit 1 and the formatted paidPrice.
C27_TotalAmount ==
    (Posted /\ op \in {"createPayment", "initThreeDSPayment"})
        => /\ ElementValue(sent[1].envelope, "Toplam_Tutar") = TotalOf(op, input)
           /\ ElementValue(sent[1].envelope, "Islem_Hash")
                = Sha256Base64(paramposConfig.clientCode \o paramposConfig.guid
                               \o ElementValue(sent[1].envelope, "Taksit")
                               \o formatParamposAmount(input.price).value
                               \o TotalOf(op, input)
                               \o input.basketId)
           /\ op = "createPayment"
                => ElementValue(sent[1].envelope, "Taksit") = <<"1">>

\* a 3D payment of price 10 and paidPrice 12 in three installments was
\* posted with the total 10.30
C27_Witness ==
    /\ Posted
    /\ op = "initThreeDSPayment"
    /\ input.installment = 3
    /\ input.price = <<"1", "0">>
    /\ input.paidPrice = <<"1", "2">>
    /\ ElementValue(sent[1].envelope, "Toplam_Tutar")
          = <<"1", "0", ".", "3", "0">>

\* the value of the last element called key directly under the result
\* element of the reply, or undefined
DirectValue(reply, key) ==
    LET at == { i \in 1..Len(reply.elements) :
                  /\ reply.elements[i].name = key
                  /\ reply.elements[i].within = "" }
    IN  IF at = {} THEN Undefined
        ELSE reply.elements[CHOOSE i \in at : \A j \in at : j <= i].value

\* C28: parseParamposSoapResponse finds the result element whatever the case
\* of its letters and returns the values of the elements directly under it,
\* and no key from outside the result element or from a deeper level.
C28_OnlyDirectChildren ==
    (pc = "returned" /\ op = "parseParamposSoapResponse")
        => /\ result.ok
           /\ \A key \in ResultKeys : result.value[key] = DirectValue(input, key)

\* the two-digit text of a month
TwoDigits(m) == IF m < 10 THEN <<"0">> \o NumToStr(m) ELSE NumToStr(m)

\* the text denotes the month m
Denotes(text, m) == text = NumToStr(m) \/ text = TwoDigits(m)

\* C29: formatParamposExpiryMonth returns the two-digit month for every input
\* that denotes a month from 1 to 12 and raises "Invalid month" for every
\* other input.
C29_MonthInRange ==
    (pc = "returned" /\ op = "formatParamposExpiryMonth")
        => IF \E m \in 1..12 : Denotes(input, m)
           THEN \E m \in 1..12 :
                    Denotes(input, m) /\ result = Return(TwoDigits(m))
           ELSE /\ ~result.ok
                /\ SubSeq(result.message, 1, 1) = <<"Invalid month: ">>

\* the digit at place i of an identity number
Digit(i) == DigitVal(input[i])

\* C30: validateTurkishIdentityNumber returns true exactly for the strings of
\* eleven digits whose first digit is not 0, whose tenth digit is
\* ((d1 + d3 + d5 + d7 + d9) * 7 - (d2 + d4 + d6 + d8)) mod 10 taken in 0..9,
\* and whose eleventh digit is (d1 + ... + d10) mod 10.
C30_IdentityNumberChecksums ==
    (pc = "returned" /\ op = "validateTurkishIdentityNumber")
        => result =
            (/\ Len(input) = 11
             /\ \A i \in 1..11 : IsDigit(input[i])
             /\ Digit(1) # 0
             /\ Digit(10) = ((Digit(1) + Digit(3) + Digit(5) + Digit(7)
                              + Digit(9)) * 7
                             - (Digit(2) + Digit(4) + Digit(6) + Digit(8))) % 10
             /\ Digit(11) = (Digit(1) + Digit(2) + Digit(3) + Digit(4)
                             + Digit(5) + Digit(6) + Digit(7) + Digit(8)
                             + Digit(9) + Digit(10)) % 10)
====
